---- MODULE Spec2Model ----
(***************************************************************************)
(* A model of the job-sphere backend: the relational store (Employer,      *)
(* Company, Job, JobFormField, Application, ApplicationResponse) and the   *)
(* REST handlers that write it.  Every table is a set of rows; a handler   *)
(* is one action (its middleware chain included), except in the race       *)
(* specifications, where a handler is split at its awaits.                 *)
(***************************************************************************)
EXTENDS Integers, Sequences, FiniteSets, TLC

VARIABLES
    employer,     \* Employer table: rows [userId, companyId, role]
    company,      \* Company table: rows [id, name, isActive, website, description]
    job,          \* Job table: rows [id, employerId, companyId, status, title]
    formField,    \* JobFormField table
    application,  \* Application table: rows [id, jobId, seekerId, status]
    response,     \* ApplicationResponse table: rows [applicationId, fieldId]
    nextId,       \* the SERIAL sequences of Company, Job, JobFormField, Application
    last,         \* the HTTP response of the most recent request: [op, code]
    applyReq,     \* applyForJob requests in flight (split at their awaits)
    companyReq,   \* createCompany / updateMyCompany requests in flight
    user,         \* User table: the ids of the users that have a row
    jobReq,       \* the createJob request in flight (split at its awaits)
    deleteReq,    \* the deleteEmployerAccount request in flight: its transaction
    profile,      \* the profile of the user who asks for its status: [role, done]
    profileStatus, \* data.profileStatus of the last checkProfileStatus answer
    jobSeeker,    \* JobSeeker table: the ids of the users that have a row
    readReq,      \* the seeker's read request in flight (split at its awaits)
    dashReq,      \* the getDashboardStats request in flight (split at its awaits)
    withdrawReq,  \* the withdrawApplication request in flight (split at its awaits)
    jobView       \* the last answer of getJobById: [code, hasApplied]

dbVars == <<employer, company, job, formField, application, response, nextId>>
profileVars == <<profile, profileStatus>>
seekerVars == <<jobSeeker, readReq>>
slotVars == <<dashReq, withdrawReq, jobView>>
accountVars == <<user, jobReq, deleteReq, profileVars, seekerVars, slotVars>>
vars == <<employer, company, job, formField, application, response, nextId,
          last, applyReq, companyReq, user, jobReq, deleteReq, profile,
          profileStatus, jobSeeker, readReq, dashReq, withdrawReq, jobView>>

-----------------------------------------------------------------------------
(* Bounds of the model *)

\* the Job sequence stops here: at most MaxJobs jobs are ever created
MaxJobs == 2
\* the Application sequence stops here
MaxApps == 2
\* employer-defined form fields ever created
MaxCustomFields == 1
\* length of the fields array of createJobForm / updateJobForm
MaxFormLen == 1
\* concurrent applyForJob requests
NumApplyReqs == 2
\* Company rows ever created
MaxCompanies == 2
\* concurrent company requests
NumCompanyReqs == 2

-----------------------------------------------------------------------------
(* Users.  Sign-up is outside the model: the User rows are fixed.  A user   *)
(* of role EMPLOYER owns at most one Employer row (Employer_userId_key), so *)
(* an employer id is written as the id of its user; likewise for seekers.  *)
(* The apply and withdraw routes sit behind requireCompleteProfile; the    *)
(* requests the model sends to them come from seekers with a JobSeeker row.*)

EmployerUsers == {"E1", "E2", "E3"}
SeekerUsers == {"S1", "S2"}

\* User.role of the row of user u
StoredRole(u) == IF u \in EmployerUsers THEN "EMPLOYER" ELSE "JOB_SEEKER"

\* req.user.employerId when the user has no Employer row (user.employer?.id)
Undefined == "undefined"
\* a NULL column / an absent numeric body field
Null == 0
\* a NULL text column
NoText == "NULL"

JobStatuses == {"ACTIVE", "COMPLETED", "PAUSED"}
ApplicationStatuses ==
    {"PENDING", "REVIEWING", "SHORTLISTED", "INTERVIEWED", "ACCEPTED", "REJECTED",
     "WITHDRAWN"}

JobIds == 1 .. MaxJobs
AppIds == 1 .. MaxApps

-----------------------------------------------------------------------------
(* Rows and queries *)

HasRow(table, id) == \E r \in table : r.id = id
Row(table, id) == CHOOSE r \in table : r.id = id

HasEmployer(u) == \E e \in employer : e.userId = u
EmployerRow(u) == CHOOSE e \in employer : e.userId = u

\* authEmployer: employerId: user.employer?.id, companyId: ... || undefined
EmployerIdOf(u) == IF HasEmployer(u) THEN u ELSE Undefined

FieldsOfJob(j) == {f \in formField : f.jobId = j}

RECURSIVE SetToSeq(_)
\* a set of numbers as the ascending sequence
SetToSeq(S) ==
    IF S = {} THEN <<>>
    ELSE LET m == CHOOSE x \in S : \A y \in S : x <= y
         IN <<m>> \o SetToSeq(S \ {m})


-----------------------------------------------------------------------------
(* Middleware (auth.middleware.ts).  A guard yields 0 for next() and the   *)
(* HTTP status it answers with otherwise.                                  *)

Respond(op, code) == last' = [op |-> op, code |-> code]

\* requireCompany: the employer has an Employer row and an active company
RequireCompany(u) ==
    IF ~HasEmployer(u) THEN 400
    ELSE IF EmployerRow(u).companyId = Null
            \/ ~HasRow(company, EmployerRow(u).companyId) THEN 400
    ELSE IF ~Row(company, EmployerRow(u).companyId).isActive THEN 403
    ELSE 0

\* The where clause {id: jobId, employerId: req.user.employerId} of
\* checkJobOwnership.  Prisma drops a filter whose value is undefined, so a
\* caller without an Employer row matches the job whoever owns it.
JobOwnershipFilter(jb, jobId, employerId) ==
    /\ jb.id = jobId
    /\ (employerId = Undefined \/ jb.employerId = employerId)

\* checkJobOwnership, after authEmployer has attached req.user
CheckJobOwnership(u, jobId) ==
    IF jobId = Null THEN 400
    ELSE IF ~(\E jb \in job : JobOwnershipFilter(jb, jobId, EmployerIdOf(u))) THEN 403
    ELSE 0

-----------------------------------------------------------------------------
(* Job posting and the form builder (job.controller.ts) *)

\* the rows createDefaultJobFormFields seeds, in order
DefaultFieldDefs ==
    << [label |-> "Full Name", fieldType |-> "TEXT"],
       [label |-> "Email Address", fieldType |-> "EMAIL"],
       [label |-> "Phone Number", fieldType |-> "PHONE"],
       [label |-> "Resume URL", fieldType |-> "RESUME_URL"],
       [label |-> "Years of Experience", fieldType |-> "YEARS_OF_EXPERIENCE"] >>

NumDefaultFields == Len(DefaultFieldDefs)

\* createDefaultJobFormFields(jobId): createMany, ids taken from the sequence
CreateDefaultJobFormFields(jobId, firstId) ==
    { [id |-> firstId + i - 1, jobId |-> jobId, label |-> DefaultFieldDefs[i].label,
       fieldType |-> DefaultFieldDefs[i].fieldType, isRequired |-> TRUE,
       isDefault |-> TRUE, order |-> i] : i \in 1 .. NumDefaultFields }

\* employer-defined field ids drawn from the JobFormField sequence so far
CustomFieldsCreated == (nextId.field - 1) - NumDefaultFields * (nextId.job - 1)

\* a || b of JavaScript on a boolean a
JsOrBool(a, b) == IF a THEN a ELSE b
\* a || b of JavaScript on a number a (0 and undefined are falsy)
JsOrNum(a, b) == IF a # Null THEN a ELSE b

\* ON DELETE CASCADE of ApplicationResponse_fieldId_fkey
ResponsesWithoutFields(ids) == {r \in response : r.fieldId \notin ids}

\* POST /api/jobs/create: authEmployer, requireCompany, createJob
CreateJob(u, title) ==
    /\ IF RequireCompany(u) # 0
       THEN /\ Respond("createJob", RequireCompany(u))
            /\ UNCHANGED dbVars
       ELSE /\ nextId.job <= MaxJobs
            /\ job' = job \cup
                 { [id |-> nextId.job, employerId |-> EmployerIdOf(u),
                    companyId |-> EmployerRow(u).companyId, status |-> "ACTIVE",
                    title |-> title] }
            /\ formField' = formField \cup
                 CreateDefaultJobFormFields(nextId.job, nextId.field)
            /\ nextId' = [nextId EXCEPT !.job = @ + 1, !.field = @ + NumDefaultFields]
            /\ Respond("createJob", 201)
            /\ UNCHANGED <<employer, company, application, response>>
    /\ UNCHANGED <<applyReq, companyReq, accountVars>>

\* PUT /api/jobs/:jobId: authEmployer, checkJobOwnership, updateJobDetails
UpdateJobDetails(u, jobId, title) ==
    /\ IF CheckJobOwnership(u, jobId) # 0
       THEN /\ Respond("updateJobDetails", CheckJobOwnership(u, jobId))
            /\ UNCHANGED dbVars
       ELSE /\ job' = {IF jb.id = jobId THEN [jb EXCEPT !.title = title] ELSE jb
                       : jb \in job}
            /\ Respond("updateJobDetails", 200)
            /\ UNCHANGED <<employer, company, formField, application, response, nextId>>
    /\ UNCHANGED <<applyReq, companyReq, accountVars>>

\* PATCH /api/jobs/:jobId/status: authEmployer, checkJobOwnership, updateJobStatus
UpdateJobStatus(u, jobId, status) ==
    /\ IF CheckJobOwnership(u, jobId) # 0
       THEN /\ Respond("updateJobStatus", CheckJobOwnership(u, jobId))
            /\ UNCHANGED dbVars
       ELSE IF status \notin {"ACTIVE", "COMPLETED", "PAUSED"}
       THEN /\ Respond("updateJobStatus", 400)
            /\ UNCHANGED dbVars
       ELSE /\ job' = {IF jb.id = jobId THEN [jb EXCEPT !.status = status] ELSE jb
                       : jb \in job}
            /\ Respond("updateJobStatus", 200)
            /\ UNCHANGED <<employer, company, formField, application, response, nextId>>
    /\ UNCHANGED <<applyReq, companyReq, accountVars>>

\* DELETE /api/jobs/:jobId: authEmployer, checkJobOwnership, deleteJob.
\* application.deleteMany, then job.delete, whose foreign keys cascade to the
\* job's form fields and to the responses of its applications and fields.
DeleteJob(u, jobId) ==
    /\ IF CheckJobOwnership(u, jobId) # 0
       THEN /\ Respond("deleteJob", CheckJobOwnership(u, jobId))
            /\ UNCHANGED dbVars
       ELSE LET apps == {a.id : a \in {x \in application : x.jobId = jobId}}
                flds == {f.id : f \in FieldsOfJob(jobId)}
            IN /\ application' = {a \in application : a.jobId # jobId}
               /\ response' = {r \in response :
                                 r.applicationId \notin apps /\ r.fieldId \notin flds}
               /\ formField' = formField \ FieldsOfJob(jobId)
               /\ job' = {jb \in job : jb.id # jobId}
               /\ Respond("deleteJob", 200)
               /\ UNCHANGED <<employer, company, nextId>>
    /\ UNCHANGED <<applyReq, companyReq, accountVars>>

\* GET /api/jobs/:jobId/applications: authEmployer, checkJobOwnership,
\* getJobApplications (a read: only the response changes)
GetJobApplications(u, jobId) ==
    /\ IF CheckJobOwnership(u, jobId) # 0
       THEN Respond("getJobApplications", CheckJobOwnership(u, jobId))
       ELSE Respond("getJobApplications", 200)
    /\ UNCHANGED dbVars
    /\ UNCHANGED <<applyReq, companyReq, accountVars>>

-----------------------------------------------------------------------------
(* The form builder.  An element of the fields array is                    *)
(* [id, label, fieldType, isRequired, order]; id and order are Null when   *)
(* the body leaves them out.                                               *)

\* the row createJobForm creates for fields[index] (index from 0)
NewFormFieldOfCreate(jobId, f, index, id) ==
    [id |-> id, jobId |-> jobId, label |-> f.label, fieldType |-> f.fieldType,
     isRequired |-> JsOrBool(f.isRequired, TRUE), isDefault |-> FALSE,
     order |-> JsOrNum(f.order, index + 100)]

\* the row updateJobForm creates for an element without id
NewFormFieldOfUpdate(jobId, f, id) ==
    [id |-> id, jobId |-> jobId, label |-> f.label, fieldType |-> f.fieldType,
     isRequired |-> JsOrBool(f.isRequired, TRUE), isDefault |-> FALSE,
     order |-> JsOrNum(f.order, 0)]

\* jobFormField.update({where: {id: field.id}, data: {...}}) of updateJobForm:
\* an order left out of the body is undefined and leaves the column alone
UpdatedFormField(row, f) ==
    [row EXCEPT !.label = f.label, !.fieldType = f.fieldType,
                !.isRequired = f.isRequired,
                !.order = IF f.order = Null THEN @ ELSE f.order]

RECURSIVE CreateFormFold(_, _, _, _)
\* the creates of createJobForm, fields[index ..] onto acc = [table, next]
CreateFormFold(jobId, fields, index, acc) ==
    IF index >= Len(fields) THEN acc
    ELSE CreateFormFold(jobId, fields, index + 1,
           [table |-> acc.table \cup
                        {NewFormFieldOfCreate(jobId, fields[index + 1], index, acc.next)},
            next |-> acc.next + 1])

RECURSIVE UpdateFormFold(_, _, _)
\* the updates and creates of updateJobForm onto acc = [table, next, failed];
\* Promise.all runs every element, so an element that throws (no row of that
\* id) fails the request and leaves the other elements' writes in place
UpdateFormFold(jobId, fields, acc) ==
    IF fields = <<>> THEN acc
    ELSE LET f == Head(fields)
         IN UpdateFormFold(jobId, Tail(fields),
              IF f.id # Null
              THEN IF HasRow(acc.table, f.id)
                   THEN [acc EXCEPT !.table =
                           {IF r.id = f.id THEN UpdatedFormField(r, f) ELSE r
                            : r \in acc.table}]
                   ELSE [acc EXCEPT !.failed = TRUE]
              ELSE [acc EXCEPT !.table = @ \cup {NewFormFieldOfUpdate(jobId, f, acc.next)},
                               !.next = @ + 1])

\* elements of a fields array that name no id (a new field)
NewFieldInputs ==
    { [id |-> Null, label |-> "Custom", fieldType |-> "TEXT", isRequired |-> b,
       order |-> Null] : b \in BOOLEAN }

\* the fields updateJobForm is asked to update: the employer-defined fields,
\* the first default field of each job, and an id that names no row
UpdatableFieldIds ==
    {f.id : f \in {x \in formField : ~x.isDefault \/ x.order = 1}}
        \cup {nextId.field + MaxFormLen}

UpdateFieldInputs ==
    { [id |-> i, label |-> "Custom", fieldType |-> "TEXT", isRequired |-> b,
       order |-> Null] : i \in UpdatableFieldIds, b \in BOOLEAN }

\* arrays of at most MaxFormLen elements of S
SeqsUpTo(S) == UNION { [1 .. n -> S] : n \in 0 .. MaxFormLen }

\* the writes of the handler createJobForm: deleteMany of the job's
\* employer-defined fields (their responses cascade), then one create each
CreateJobFormWrites(jobId, fields) ==
    LET gone == {f \in formField : f.jobId = jobId /\ ~f.isDefault}
        acc == CreateFormFold(jobId, fields, 0,
                              [table |-> formField \ gone, next |-> nextId.field])
    IN /\ formField' = acc.table
       /\ response' = ResponsesWithoutFields({f.id : f \in gone})
       /\ nextId' = [nextId EXCEPT !.field = acc.next]

\* POST /api/jobs/:jobId/form: authEmployer, checkJobOwnership, createJobForm
CreateJobForm(u, jobId, fields) ==
    /\ IF CheckJobOwnership(u, jobId) # 0
       THEN /\ Respond("createJobForm", CheckJobOwnership(u, jobId))
            /\ UNCHANGED dbVars
       ELSE /\ CustomFieldsCreated + Len(fields) <= MaxCustomFields
            /\ CreateJobFormWrites(jobId, fields)
            /\ Respond("createJobForm", 201)
            /\ UNCHANGED <<employer, company, job, application>>
    /\ UNCHANGED <<applyReq, companyReq, accountVars>>

\* PUT /api/jobs/:jobId/form: authEmployer, checkJobOwnership, updateJobForm
UpdateJobForm(u, jobId, fields) ==
    /\ IF CheckJobOwnership(u, jobId) # 0
       THEN /\ Respond("updateJobForm", CheckJobOwnership(u, jobId))
            /\ UNCHANGED dbVars
       ELSE LET acc == UpdateFormFold(jobId, fields,
                         [table |-> formField, next |-> nextId.field, failed |-> FALSE])
            IN /\ CustomFieldsCreated + (acc.next - nextId.field) <= MaxCustomFields
               /\ formField' = acc.table
               /\ nextId' = [nextId EXCEPT !.field = acc.next]
               /\ Respond("updateJobForm", IF acc.failed THEN 500 ELSE 200)
               /\ UNCHANGED <<employer, company, job, application, response>>
    /\ UNCHANGED <<applyReq, companyReq, accountVars>>

\* the handler without its refusal of default fields
DeleteJobFormFieldOfAnyField(u, jobId, fieldId) ==
    /\ IF CheckJobOwnership(u, jobId) # 0
       THEN /\ Respond("deleteJobFormField", CheckJobOwnership(u, jobId))
            /\ UNCHANGED dbVars
       ELSE IF ~HasRow(formField, fieldId)
       THEN /\ Respond("deleteJobFormField", 404)
            /\ UNCHANGED dbVars
       ELSE /\ formField' = {f \in formField : f.id # fieldId}
            /\ response' = ResponsesWithoutFields({fieldId})
            /\ Respond("deleteJobFormField", 200)
            /\ UNCHANGED <<employer, company, job, application, nextId>>
    /\ UNCHANGED <<applyReq, companyReq, accountVars>>

\* DELETE /api/jobs/:jobId/form/field/:fieldId: authEmployer,
\* checkJobOwnership, deleteJobFormField (the field is found by its id alone)
DeleteJobFormField(u, jobId, fieldId) ==
    /\ IF CheckJobOwnership(u, jobId) # 0
       THEN /\ Respond("deleteJobFormField", CheckJobOwnership(u, jobId))
            /\ UNCHANGED dbVars
       ELSE IF ~HasRow(formField, fieldId)
       THEN /\ Respond("deleteJobFormField", 404)
            /\ UNCHANGED dbVars
       ELSE IF Row(formField, fieldId).isDefault
       THEN /\ Respond("deleteJobFormField", 400)
            /\ UNCHANGED dbVars
       ELSE /\ formField' = {f \in formField : f.id # fieldId}
            /\ response' = ResponsesWithoutFields({fieldId})
            /\ Respond("deleteJobFormField", 200)
            /\ UNCHANGED <<employer, company, job, application, nextId>>
    /\ UNCHANGED <<applyReq, companyReq, accountVars>>

-----------------------------------------------------------------------------
(* The application workflow (jobForJobseeker.controller.ts,                *)
(* applicationHistory.controller.ts, job.controller.ts).  The responses of *)
(* an apply request are a sequence of [fieldId]; the answer, a free text   *)
(* no handler looks at, is left out.                                       *)

\* job.findUnique({where: {id, status: 'ACTIVE'}, include: {formFields}})
ActiveJobFound(jobId) == \E jb \in job : jb.id = jobId /\ jb.status = "ACTIVE"

\* application.findUnique({where: {jobId_seekerId}})
ExistingApplication(jobId, seekerId) ==
    \E a \in application : a.jobId = jobId /\ a.seekerId = seekerId

ResponseFieldIds(responses) == {responses[i].fieldId : i \in 1 .. Len(responses)}

\* the check applied to the default fields alone
MissingRequiredDefaultOnly(fields, responses) ==
    {f \in fields :
        f.isDefault /\ f.isRequired /\ f.id \notin ResponseFieldIds(responses)}

\* the required fields of the form that the responses leave out
MissingRequired(fields, responses) ==
    {f \in fields : f.isRequired /\ f.id \notin ResponseFieldIds(responses)}

\* the store without the unique index on (jobId, seekerId)
UniqueJobSeekerDropped(jobId, seekerId) == TRUE

\* the unique index Application_jobId_seekerId_key admits the new row
UniqueJobSeeker(jobId, seekerId) ==
    ~(\E a \in application : a.jobId = jobId /\ a.seekerId = seekerId)

\* the unique index ApplicationResponse_applicationId_fieldId_key admits the
\* new application's responses: no fieldId twice
UniqueResponseFields(responses) ==
    \A i, k \in 1 .. Len(responses) :
        responses[i].fieldId = responses[k].fieldId => i = k

\* the store accepting the nested create whatever its responses are
ApplyInsertAcceptedUnchecked(jobId, seekerId, responses) ==
    HasRow(job, jobId) /\ UniqueJobSeeker(jobId, seekerId)

\* the store accepts the nested create of applyForJob (one statement, all
\* or nothing): the foreign keys of Application and ApplicationResponse and
\* both unique indexes
ApplyInsertAccepted(jobId, seekerId, responses) ==
    /\ HasRow(job, jobId)
    /\ UniqueJobSeeker(jobId, seekerId)
    /\ \A i \in 1 .. Len(responses) : HasRow(formField, responses[i].fieldId)
    /\ UniqueResponseFields(responses)

\* application.create({data: {jobId, seekerId, responses: {create: [...]}}})
ApplyInsert(jobId, seekerId, responses) ==
    /\ nextId.app <= MaxApps
    /\ application' = application \cup
         { [id |-> nextId.app, jobId |-> jobId, seekerId |-> seekerId,
            status |-> "PENDING"] }
    /\ response' = response \cup
         { [applicationId |-> nextId.app, fieldId |-> responses[i].fieldId]
           : i \in 1 .. Len(responses) }
    /\ nextId' = [nextId EXCEPT !.app = @ + 1]

\* the status applyForJob answers with before it reaches the insert, 0 when
\* it goes on to the insert; fields is the form read with the job
ApplyPrecheck(jobFound, fields, existing, responses) ==
    IF ~jobFound THEN 404
    ELSE IF existing THEN 400
    ELSE IF MissingRequired(fields, responses) # {} THEN 400
    ELSE 0

\* POST /api/jobseekers/jobs/:jobId/apply, one request at a time
ApplyForJob(s, jobId, responses) ==
    LET pre == ApplyPrecheck(ActiveJobFound(jobId), FieldsOfJob(jobId),
                             ExistingApplication(jobId, s), responses)
    IN /\ IF pre # 0
          THEN /\ Respond("applyForJob", pre)
               /\ UNCHANGED dbVars
          ELSE IF ~ApplyInsertAccepted(jobId, s, responses)
          THEN /\ Respond("applyForJob", 500)
               /\ UNCHANGED dbVars
          ELSE /\ ApplyInsert(jobId, s, responses)
               /\ Respond("applyForJob", 201)
               /\ UNCHANGED <<employer, company, job, formField>>
       /\ UNCHANGED <<applyReq, companyReq, accountVars>>

\* findFirst of JobSeekerController.withdrawApplication
WithdrawableFound(s, appId) ==
    \E a \in application :
        a.id = appId /\ a.seekerId = s /\ a.status \in {"PENDING", "REVIEWING"}

SetStatus(appId, status) ==
    application' = {IF a.id = appId THEN [a EXCEPT !.status = status] ELSE a
                    : a \in application}

\* PATCH /api/jobseekers/applications/:applicationId/withdraw
WithdrawApplication(s, appId) ==
    /\ IF ~WithdrawableFound(s, appId)
       THEN /\ Respond("withdrawApplication", 404)
            /\ UNCHANGED dbVars
       ELSE /\ SetStatus(appId, "WITHDRAWN")
            /\ Respond("withdrawApplication", 200)
            /\ UNCHANGED <<employer, company, job, formField, response, nextId>>
    /\ UNCHANGED <<applyReq, companyReq, accountVars>>

\* the status ApplicationHistoryController.withdrawApplication refuses an
\* application of the caller with, 0 when it goes on to the update
HistoryWithdrawRefusal(status) ==
    IF status = "WITHDRAWN" THEN 400
    ELSE IF status = "ACCEPTED" \/ status = "REJECTED" THEN 400
    ELSE 0

\* PUT /api/applications/:applicationId/withdraw
HistoryWithdrawApplication(s, appId) ==
    /\ IF ~(\E a \in application : a.id = appId /\ a.seekerId = s)
       THEN /\ Respond("historyWithdrawApplication", 404)
            /\ UNCHANGED dbVars
       ELSE IF HistoryWithdrawRefusal(Row(application, appId).status) # 0
       THEN /\ Respond("historyWithdrawApplication",
                       HistoryWithdrawRefusal(Row(application, appId).status))
            /\ UNCHANGED dbVars
       ELSE /\ SetStatus(appId, "WITHDRAWN")
            /\ Respond("historyWithdrawApplication", 200)
            /\ UNCHANGED <<employer, company, job, formField, response, nextId>>
    /\ UNCHANGED <<applyReq, companyReq, accountVars>>

\* the allow-list with WITHDRAWN let in
EmployerStatusAllowedWithWithdrawn(status) ==
    status \in {"PENDING", "REVIEWING", "SHORTLISTED", "INTERVIEWED", "ACCEPTED",
                "REJECTED", "WITHDRAWN"}

\* the allow-list of updateApplicationStatus
EmployerStatusAllowed(status) ==
    status \in {"PENDING", "REVIEWING", "SHORTLISTED", "INTERVIEWED", "ACCEPTED",
                "REJECTED"}

\* PATCH /api/jobs/:jobId/applications/:applicationId/status: authEmployer,
\* checkJobOwnership on :jobId, updateApplicationStatus, whose update names
\* the application by its id alone
UpdateApplicationStatus(u, jobId, appId, status) ==
    /\ IF CheckJobOwnership(u, jobId) # 0
       THEN /\ Respond("updateApplicationStatus", CheckJobOwnership(u, jobId))
            /\ UNCHANGED dbVars
       ELSE IF ~EmployerStatusAllowed(status)
       THEN /\ Respond("updateApplicationStatus", 400)
            /\ UNCHANGED dbVars
       ELSE IF ~HasRow(application, appId)
       THEN /\ Respond("updateApplicationStatus", 500)
            /\ UNCHANGED dbVars
       ELSE /\ SetStatus(appId, status)
            /\ Respond("updateApplicationStatus", 200)
            /\ UNCHANGED <<employer, company, job, formField, response, nextId>>
    /\ UNCHANGED <<applyReq, companyReq, accountVars>>

-----------------------------------------------------------------------------
(* Employer onboarding (employer.controller.ts) *)

\* POST /api/employer/profile: authenticate, createEmployerProfile, for a
\* user whose basic details are complete
CreateEmployerProfile(u) ==
    /\ IF StoredRole(u) # "EMPLOYER"
       THEN /\ Respond("createEmployerProfile", 403)
            /\ UNCHANGED dbVars
       ELSE IF HasEmployer(u)
       THEN /\ Respond("createEmployerProfile", 409)
            /\ UNCHANGED dbVars
       ELSE /\ employer' = employer \cup
                 { [userId |-> u, companyId |-> Null, role |-> "RECRUITER"] }
            /\ Respond("createEmployerProfile", 201)
            /\ UNCHANGED <<company, job, formField, application, response, nextId>>
    /\ UNCHANGED <<applyReq, companyReq, accountVars>>

-----------------------------------------------------------------------------
(* The requests the model sends *)

\* the least element of a non-empty set of numbers
Least(S) == CHOOSE x \in S : \A y \in S : x <= y

\* the responses arrays sent to apply for a job: an answer to every field
\* of its form; that with one field left out; that followed by a repeated
\* fieldId, by a fieldId that names no row, or by a field of another job
ResponseInputs(jobId) ==
    LET own == {f.id : f \in FieldsOfJob(jobId)}
        foreign == {f.id : f \in formField} \ own
        AsResponses(ids) == [i \in 1 .. Len(ids) |-> [fieldId |-> ids[i]]]
        complete == AsResponses(SetToSeq(own))
        extra == (IF own = {} THEN {} ELSE {Least(own)})
                    \cup (IF foreign = {} THEN {} ELSE {Least(foreign)})
                    \cup {nextId.field + MaxFormLen}
    IN {complete}
         \cup {AsResponses(SetToSeq(own \ {x})) : x \in own}
         \cup {complete \o <<[fieldId |-> x]>> : x \in extra}

StatusInputs == ApplicationStatuses \cup {"HIRED"}

ApplyReqs == 1 .. NumApplyReqs
CompanyReqs == 1 .. NumCompanyReqs

\* a request slot no request has used yet
IdleApplyReq ==
    [pc |-> "idle", seekerId |-> "", jobId |-> Null, responses |-> <<>>,
     fields |-> {}, code |-> 0]
IdleCompanyReq ==
    [pc |-> "idle", kind |-> "", userId |-> "", companyId |-> Null, name |-> <<>>,
     website |-> Undefined, description |-> Undefined,
     code |-> 0, suggestion |-> Null]

\* no createJob request in flight
IdleJobReq == [pc |-> "idle", userId |-> "", jobId |-> Null, code |-> 0]

\* the rows a transaction has deleted and not yet committed: none
NoRows ==
    [response |-> {}, application |-> {}, formField |-> {}, job |-> {},
     employer |-> {}]

\* the profile of an employer after signup: no step is satisfied
NewEmployerProfile == [role |-> "EMPLOYER", done |-> {}]

\* no checkProfileStatus request has been answered
NoProfileStatus == [nextStep |-> "", completionPercentage |-> 0, isComplete |-> FALSE]

\* no read request of a seeker in flight
IdleReadReq ==
    [pc |-> "idle", kind |-> "", userId |-> "", jobSeekerId |-> Undefined,
     param |-> Null, code |-> 0, apps |-> {}]

\* no getDashboardStats request in flight; dist is the statusDistribution
\* of the answer, a set of [status, count, percentage]
IdleDashReq ==
    [pc |-> "idle", userId |-> "", totalApplicants |-> 0, code |-> 0,
     dist |-> {}, conversionRate |-> 0, responseRate |-> 0]

\* no withdrawApplication request in flight
IdleWithdrawReq == [pc |-> "idle", userId |-> "", appId |-> Null, code |-> 0]

\* no getJobById request has been answered
NoJobView == [code |-> 0, hasApplied |-> FALSE]

\* no deleteEmployerAccount request in flight
IdleDeleteReq == [pc |-> "idle", userId |-> "", code |-> 0, gone |-> NoRows]

\* The store after onboarding: employer E1 has created company 1 and is its
\* ADMIN, E2 has joined it (selectExistingCompany), and E3, of role EMPLOYER,
\* has no Employer row yet.  No job has been posted.
Init ==
    /\ employer = { [userId |-> "E1", companyId |-> 1, role |-> "ADMIN"],
                    [userId |-> "E2", companyId |-> 1, role |-> "RECRUITER"] }
    /\ company = { [id |-> 1, name |-> <<"a", "b">>, isActive |-> TRUE,
                   website |-> NoText, description |-> NoText] }
    /\ job = {}
    /\ formField = {}
    /\ application = {}
    /\ response = {}
    /\ nextId = [company |-> 2, job |-> 1, field |-> 1, app |-> 1]
    /\ last = [op |-> "none", code |-> 0]
    /\ applyReq = [r \in ApplyReqs |-> IdleApplyReq]
    /\ companyReq = [r \in CompanyReqs |-> IdleCompanyReq]
    /\ user = EmployerUsers \cup SeekerUsers
    /\ jobReq = IdleJobReq
    /\ deleteReq = IdleDeleteReq
    /\ profile = NewEmployerProfile
    /\ profileStatus = NoProfileStatus
    /\ jobSeeker = SeekerUsers
    /\ readReq = IdleReadReq
    /\ dashReq = IdleDashReq
    /\ withdrawReq = IdleWithdrawReq
    /\ jobView = NoJobView

\* the responses array that answers every field of the job's form
CompleteResponses(jobId) ==
    LET ids == SetToSeq({f.id : f \in FieldsOfJob(jobId)})
    IN [i \in 1 .. Len(ids) |-> [fieldId |-> ids[i]]]

\* The application workflow, one request at a time: jobs are posted,
\* seekers apply with every field answered, seekers withdraw through either
\* endpoint and employers set statuses.
Next ==
    \/ \E u \in EmployerUsers : CreateJob(u, "T0")
    \/ \E s \in SeekerUsers, j \in JobIds : ApplyForJob(s, j, CompleteResponses(j))
    \/ \E s \in SeekerUsers, a \in AppIds : WithdrawApplication(s, a)
    \/ \E s \in SeekerUsers, a \in AppIds : HistoryWithdrawApplication(s, a)
    \/ \E u \in EmployerUsers, j \in JobIds, a \in AppIds, st \in StatusInputs :
          UpdateApplicationStatus(u, j, a, st)

Spec == Init /\ [][Next]_vars

\* elements that make a field optional: of a new field, and of an update of
\* an employer-defined field or of the first default field of a job
OptionalFieldInputs ==
    {f \in NewFieldInputs \cup UpdateFieldInputs : ~f.isRequired}

\* Job posting and the form builder, one request at a time: E1 posts the
\* jobs, and E1, E2 and E3 (before and after it has an Employer row) send
\* the job-scoped requests.
NextJobs ==
    \/ \E u \in EmployerUsers : CreateEmployerProfile(u)
    \/ \E u \in {"E1", "E3"} : CreateJob(u, "T0")
    \/ \E u \in EmployerUsers, j \in JobIds : UpdateJobDetails(u, j, "T1")
    \/ \E u \in EmployerUsers, j \in JobIds, st \in {"PAUSED", "CLOSED"} :
          UpdateJobStatus(u, j, st)
    \/ \E u \in EmployerUsers, j \in JobIds : DeleteJob(u, j)
    \/ \E u \in EmployerUsers, j \in JobIds : GetJobApplications(u, j)
    \/ \E u \in EmployerUsers, j \in JobIds, fs \in SeqsUpTo(NewFieldInputs) :
          CreateJobForm(u, j, fs)
    \/ \E u \in EmployerUsers, j \in JobIds, fs \in SeqsUpTo(OptionalFieldInputs) :
          UpdateJobForm(u, j, fs)
    \/ \E u \in EmployerUsers, j \in JobIds, f \in UpdatableFieldIds :
          DeleteJobFormField(u, j, f)

SpecJobs == Init /\ [][NextJobs]_vars

\* One seeker applying to jobs whose forms their employer edits, one request
\* at a time.
NextApply ==
    \/ CreateJob("E1", "T0")
    \/ \E j \in JobIds, fs \in SeqsUpTo(NewFieldInputs) : CreateJobForm("E1", j, fs)
    \/ \E j \in JobIds, fs \in SeqsUpTo(NewFieldInputs \cup UpdateFieldInputs) :
          UpdateJobForm("E1", j, fs)
    \/ \E j \in JobIds :
          \E rs \in ResponseInputs(j) : ApplyForJob("S1", j, rs)

SpecApply == Init /\ [][NextApply]_vars

-----------------------------------------------------------------------------
(* applyForJob split at its awaits: the job read, the read of an existing  *)
(* application (with the required-field check, which reads nothing), and   *)
(* the insert.  A slot holds one request at a time and is taken again once *)
(* its request has been answered.                                          *)

\* the slot of a request that has been answered: who applied to which job,
\* and the status of the answer
AnsweredApplyReq(q, code) ==
    [q EXCEPT !.pc = "done", !.code = code, !.responses = <<>>, !.fields = {}]

\* the responses arrays of the concurrent requests: an answer to every field
\* of the form, and that followed by the first fieldId again
RaceResponseInputs(jobId) ==
    {CompleteResponses(jobId)}
        \cup {CompleteResponses(jobId) \o <<[fieldId |-> f.id]>>
              : f \in {x \in FieldsOfJob(jobId) : x.order = 1}}

\* the request arrives and job.findUnique reads the job with its form
ApplyReadJob(r, s, jobId, responses) ==
    /\ applyReq[r].pc \in {"idle", "done"}
    /\ applyReq' = [applyReq EXCEPT ![r] =
         IF ~ActiveJobFound(jobId)
         THEN [pc |-> "done", seekerId |-> s, jobId |-> jobId,
               responses |-> <<>>, fields |-> {}, code |-> 404]
         ELSE [pc |-> "existing", seekerId |-> s, jobId |-> jobId,
               responses |-> responses, fields |-> FieldsOfJob(jobId), code |-> 0]]
    /\ UNCHANGED <<dbVars, last, companyReq, accountVars>>

\* application.findUnique, then the required-field check on the form read
ApplyReadExisting(r) ==
    LET q == applyReq[r]
        pre == ApplyPrecheck(TRUE, q.fields,
                             ExistingApplication(q.jobId, q.seekerId), q.responses)
    IN /\ q.pc = "existing"
       /\ applyReq' = [applyReq EXCEPT ![r] =
            IF pre # 0 THEN AnsweredApplyReq(q, pre)
            ELSE [q EXCEPT !.pc = "insert", !.fields = {}]]
       /\ UNCHANGED <<dbVars, last, companyReq, accountVars>>

\* application.create: the store accepts the rows or the handler's catch
\* answers 500
ApplyWrite(r) ==
    LET q == applyReq[r]
    IN /\ q.pc = "insert"
       /\ IF ApplyInsertAccepted(q.jobId, q.seekerId, q.responses)
          THEN /\ ApplyInsert(q.jobId, q.seekerId, q.responses)
               /\ applyReq' = [applyReq EXCEPT ![r] = AnsweredApplyReq(q, 201)]
               /\ UNCHANGED <<employer, company, job, formField>>
          ELSE /\ applyReq' = [applyReq EXCEPT ![r] = AnsweredApplyReq(q, 500)]
               /\ UNCHANGED dbVars
       /\ UNCHANGED <<last, companyReq, accountVars>>

\* Concurrent apply requests against the jobs E1 posts.
NextApplyRace ==
    \/ CreateJob("E1", "T0")
    \/ \E r \in ApplyReqs, s \in SeekerUsers, j \in JobIds :
          \E rs \in RaceResponseInputs(j) : ApplyReadJob(r, s, j, rs)
    \/ \E r \in ApplyReqs : ApplyReadExisting(r)
    \/ \E r \in ApplyReqs : ApplyWrite(r)

SpecApplyRace == Init /\ [][NextApplyRace]_vars

-----------------------------------------------------------------------------
(* The company directory (company.controller.ts).  A company name is a     *)
(* sequence of characters.                                                 *)

\* one character of String.prototype.toLowerCase / a case-insensitive match
LowerChar(c) == IF c = "A" THEN "a" ELSE IF c = "B" THEN "b"
                ELSE IF c = "C" THEN "c" ELSE IF c = "D" THEN "d" ELSE c

Lower(str) == [i \in 1 .. Len(str) |-> LowerChar(str[i])]

RECURSIVE TrimStart(_)
TrimStart(str) ==
    IF str # <<>> /\ Head(str) = " " THEN TrimStart(Tail(str)) ELSE str

RECURSIVE TrimEnd(_)
TrimEnd(str) ==
    IF str # <<>> /\ str[Len(str)] = " " THEN TrimEnd(SubSeq(str, 1, Len(str) - 1))
    ELSE str

\* String.prototype.trim
Trim(str) == TrimEnd(TrimStart(str))

\* name: {equals: value, mode: 'insensitive'} of a Prisma where clause
InsensitiveEquals(stored, value) == Lower(stored) = Lower(value)

\* the duplicate lookup with an exact comparison of the names
DuplicateCompaniesExact(name, exceptId) ==
    {c \in company : c.isActive /\ c.name = Trim(name) /\ c.id # exceptId}

\* company.findFirst of createCompany (exceptId = Null) and of
\* updateMyCompany (id: {not: exceptId}): the active companies of that name
DuplicateCompanies(name, exceptId) ==
    {c \in company :
        c.isActive /\ InsensitiveEquals(c.name, Trim(name)) /\ c.id # exceptId}

\* the unique index Company_name_key admits name for the row of id exceptId
\* (Null for a new row): an exact comparison of the stored strings
UniqueCompanyName(name, exceptId) ==
    ~(\E c \in company : c.name = name /\ c.id # exceptId)

\* the names the requests carry (each passes the schema: 2 to 100 characters)
NameInputs ==
    { <<"a", "b">>, <<"A", "B">>, <<"a", "b", " ">>, <<"c", "d">> }

\* the slot of a company request that has been answered: which handler, and
\* the status of the answer
AnsweredCompanyReq(q, code) ==
    [pc |-> "done", kind |-> q.kind, userId |-> "", companyId |-> Null,
     name |-> <<>>, website |-> Undefined, description |-> Undefined,
     code |-> code, suggestion |-> Null]

\* the slot of a createCompany request answered 409: the answer carries
\* suggestion.id, the id of the company findFirst returned
ConflictCompanyReq(q, id) ==
    [AnsweredCompanyReq(q, 409) EXCEPT !.suggestion = id]

\* a body that carries the name and neither website nor description
NameOnly(name) == [name |-> name, website |-> Undefined, description |-> Undefined]

\* value || null of an optional text field of the body
OrNull(value) == IF value = Undefined \/ value = "" THEN NoText ELSE value

\* POST /api/employer/companies: authEmployer, createCompany up to its
\* company.findFirst; body is [name, website, description], an absent field
\* being Undefined
CreateCompanyReadBody(r, u, body) ==
    /\ companyReq[r].pc \in {"idle", "done"}
    /\ LET name == body.name
           q == [pc |-> "write", kind |-> "create", userId |-> u,
                 companyId |-> Null, name |-> name, website |-> body.website,
                 description |-> body.description, code |-> 0,
                 suggestion |-> Null]
       IN IF EmployerIdOf(u) = Undefined
          THEN companyReq' = [companyReq EXCEPT ![r] = AnsweredCompanyReq(q, 401)]
          ELSE IF DuplicateCompanies(name, Null) # {}
          THEN \E d \in DuplicateCompanies(name, Null) :
                  companyReq' = [companyReq EXCEPT ![r] = ConflictCompanyReq(q, d.id)]
          ELSE companyReq' = [companyReq EXCEPT ![r] = q]
    /\ UNCHANGED <<dbVars, last, applyReq, accountVars>>

\* createCompany with a body of name (and industry) only
CreateCompanyRead(r, u, name) == CreateCompanyReadBody(r, u, NameOnly(name))

\* the transaction of createCompany: company.create, then employer.update;
\* a violation of Company_name_key rolls it back and the catch answers 500
CreateCompanyWrite(r) ==
    LET q == companyReq[r]
    IN /\ q.pc = "write" /\ q.kind = "create"
       /\ IF UniqueCompanyName(Trim(q.name), Null) /\ HasEmployer(q.userId)
          THEN /\ nextId.company <= MaxCompanies
               /\ company' = company \cup
                    { [id |-> nextId.company, name |-> Trim(q.name), isActive |-> TRUE,
                       website |-> OrNull(q.website),
                       description |->
                           IF q.description = Undefined THEN NoText
                           ELSE q.description] }
               /\ employer' =
                    {IF e.userId = q.userId
                     THEN [e EXCEPT !.companyId = nextId.company, !.role = "ADMIN"]
                     ELSE e : e \in employer}
               /\ nextId' = [nextId EXCEPT !.company = @ + 1]
               /\ companyReq' = [companyReq EXCEPT ![r] = AnsweredCompanyReq(q, 201)]
               /\ UNCHANGED <<job, formField, application, response>>
          ELSE /\ companyReq' = [companyReq EXCEPT ![r] = AnsweredCompanyReq(q, 500)]
               /\ UNCHANGED dbVars
       /\ UNCHANGED <<last, applyReq, accountVars>>

\* enum CompanyRole, the values of Employer.role
CompanyRoles == {"ADMIN", "HR_MANAGER", "RECRUITER", "HIRING_MANAGER"}

\* a permission check that lets every company role through
CompanyUpdateRolesAll == CompanyRoles

\* the roles that updateMyCompany lets update the company profile
CompanyUpdateRoles == {"ADMIN", "HR_MANAGER"}

\* PUT /api/employer/companies: authEmployer, requireCompany, updateMyCompany
\* up to its company.findFirst; body is [name, website, description], name
\* being <<>> and the others Undefined when the body has no such field
UpdateMyCompanyReadBody(r, u, body) ==
    /\ companyReq[r].pc \in {"idle", "done"}
    /\ LET name == body.name
           cid == IF HasEmployer(u) THEN EmployerRow(u).companyId ELSE Null
           q == [pc |-> "write", kind |-> "update", userId |-> u,
                 companyId |-> cid, name |-> name, website |-> body.website,
                 description |-> body.description, code |-> 0,
                 suggestion |-> Null]
       IN companyReq' = [companyReq EXCEPT ![r] =
            IF RequireCompany(u) # 0 THEN AnsweredCompanyReq(q, RequireCompany(u))
            ELSE IF EmployerRow(u).role \notin CompanyUpdateRoles
                 THEN AnsweredCompanyReq(q, 403)
            ELSE IF name # <<>> /\ DuplicateCompanies(name, cid) # {}
                 THEN AnsweredCompanyReq(q, 409)
            ELSE q]
    /\ UNCHANGED <<dbVars, last, applyReq, accountVars>>

\* updateMyCompany with a body of a name only, or of no field
UpdateMyCompanyRead(r, u, name) == UpdateMyCompanyReadBody(r, u, NameOnly(name))

\* company.update of updateMyCompany with data {...updateData,
\* name: updateData.name?.trim(), website: updateData.website || null}: an
\* undefined value leaves the column as it is
UpdateMyCompanyWrite(r) ==
    LET q == companyReq[r]
        name == IF q.name = <<>> THEN Row(company, q.companyId).name ELSE Trim(q.name)
    IN /\ q.pc = "write" /\ q.kind = "update"
       /\ IF HasRow(company, q.companyId) /\ UniqueCompanyName(name, q.companyId)
          THEN /\ company' =
                    {IF c.id = q.companyId
                     THEN [c EXCEPT !.name = name,
                                    !.website = OrNull(q.website),
                                    !.description =
                                        IF q.description = Undefined THEN @
                                        ELSE q.description]
                     ELSE c : c \in company}
               /\ companyReq' = [companyReq EXCEPT ![r] = AnsweredCompanyReq(q, 200)]
               /\ UNCHANGED <<employer, job, formField, application, response, nextId>>
          ELSE /\ companyReq' = [companyReq EXCEPT ![r] = AnsweredCompanyReq(q, 500)]
               /\ UNCHANGED dbVars
       /\ UNCHANGED <<last, applyReq, accountVars>>

\* selectExistingCompany with the guard that the source has commented out:
\* an employer who has a company is answered 409
SelectExistingCompanyOnce(u, companyId) ==
    /\ IF companyId = Null
       THEN /\ Respond("selectExistingCompany", 400)
            /\ UNCHANGED dbVars
       ELSE IF EmployerIdOf(u) = Undefined
       THEN /\ Respond("selectExistingCompany", 401)
            /\ UNCHANGED dbVars
       ELSE IF ~(\E c \in company : c.id = companyId /\ c.isActive)
       THEN /\ Respond("selectExistingCompany", 404)
            /\ UNCHANGED dbVars
       ELSE IF EmployerRow(u).companyId # Null
       THEN /\ Respond("selectExistingCompany", 409)
            /\ UNCHANGED dbVars
       ELSE /\ employer' = {IF e.userId = u THEN [e EXCEPT !.companyId = companyId] ELSE e
                            : e \in employer}
            /\ Respond("selectExistingCompany", 200)
            /\ UNCHANGED <<company, job, formField, application, response, nextId>>
    /\ UNCHANGED <<applyReq, companyReq, accountVars>>

\* POST /api/employer/companies/:companyId/select: authEmployer,
\* selectExistingCompany; companyId is Null when the path parameter is 0 or
\* not a number
SelectExistingCompany(u, companyId) ==
    /\ IF companyId = Null
       THEN /\ Respond("selectExistingCompany", 400)
            /\ UNCHANGED dbVars
       ELSE IF EmployerIdOf(u) = Undefined
       THEN /\ Respond("selectExistingCompany", 401)
            /\ UNCHANGED dbVars
       ELSE IF ~(\E c \in company : c.id = companyId /\ c.isActive)
       THEN /\ Respond("selectExistingCompany", 404)
            /\ UNCHANGED dbVars
       ELSE /\ employer' = {IF e.userId = u THEN [e EXCEPT !.companyId = companyId] ELSE e
                            : e \in employer}
            /\ Respond("selectExistingCompany", 200)
            /\ UNCHANGED <<company, job, formField, application, response, nextId>>
    /\ UNCHANGED <<applyReq, companyReq, accountVars>>

\* The store before any employer has a profile or a company.
InitEmpty ==
    /\ employer = {}
    /\ company = {}
    /\ job = {}
    /\ formField = {}
    /\ application = {}
    /\ response = {}
    /\ nextId = [company |-> 1, job |-> 1, field |-> 1, app |-> 1]
    /\ last = [op |-> "none", code |-> 0]
    /\ applyReq = [r \in ApplyReqs |-> IdleApplyReq]
    /\ companyReq = [r \in CompanyReqs |-> IdleCompanyReq]
    /\ user = EmployerUsers \cup SeekerUsers
    /\ jobReq = IdleJobReq
    /\ deleteReq = IdleDeleteReq
    /\ profile = NewEmployerProfile
    /\ profileStatus = NoProfileStatus
    /\ jobSeeker = SeekerUsers
    /\ readReq = IdleReadReq
    /\ dashReq = IdleDashReq
    /\ withdrawReq = IdleWithdrawReq
    /\ jobView = NoJobView

\* Onboarding: employers create their profile, create, rename and join
\* companies; the company requests run concurrently.
NextCompany ==
    \/ \E u \in {"E1", "E2"} : CreateEmployerProfile(u)
    \/ \E r \in CompanyReqs, u \in EmployerUsers, n \in NameInputs :
          CreateCompanyRead(r, u, n)
    \/ \E r \in CompanyReqs : CreateCompanyWrite(r)
    \/ \E r \in CompanyReqs, u \in EmployerUsers, n \in NameInputs \cup {<<>>} :
          UpdateMyCompanyRead(r, u, n)
    \/ \E r \in CompanyReqs : UpdateMyCompanyWrite(r)
    \/ \E u \in EmployerUsers, c \in 1 .. MaxCompanies : SelectExistingCompany(u, c)

SpecCompany == InitEmpty /\ [][NextCompany]_vars

\* Onboarding with the company requests one at a time: a request is
\* answered before the next one is read.
NextCompanySeq ==
    \/ \E u \in {"E1", "E2"} : CreateEmployerProfile(u)
    \/ \E u \in EmployerUsers, n \in NameInputs : CreateCompanyRead(1, u, n)
    \/ CreateCompanyWrite(1)
    \/ \E u \in EmployerUsers, n \in NameInputs \cup {<<>>} :
          UpdateMyCompanyRead(1, u, n)
    \/ UpdateMyCompanyWrite(1)
    \/ \E u \in EmployerUsers, c \in 1 .. MaxCompanies : SelectExistingCompany(u, c)

SpecCompanySeq == InitEmpty /\ [][NextCompanySeq]_vars

\* PUT /api/employer/settings: authEmployer, updateEmployerSettings; the
\* body carries a role of the enum or none (Undefined: the role is kept)
UpdateEmployerSettings(u, role) ==
    /\ IF EmployerIdOf(u) = Undefined
       THEN /\ Respond("updateEmployerSettings", 403)
            /\ UNCHANGED dbVars
       ELSE /\ employer' = {IF e.userId = u /\ role # Undefined
                            THEN [e EXCEPT !.role = role] ELSE e : e \in employer}
            /\ Respond("updateEmployerSettings", 200)
            /\ UNCHANGED <<company, job, formField, application, response, nextId>>
    /\ UNCHANGED <<applyReq, companyReq, accountVars>>

\* Onboarding, one company request at a time, with employers E1 and E2
\* changing their company role in their settings.
NextCompanyRoles ==
    \/ \E u \in {"E1", "E2"} : CreateEmployerProfile(u)
    \/ \E u \in {"E1", "E2"}, n \in {<<"a", "b">>, <<"c", "d">>} :
          CreateCompanyRead(1, u, n)
    \/ CreateCompanyWrite(1)
    \/ \E u \in EmployerUsers, n \in {<<"A", "B">>, <<"c", "d">>, <<>>} :
          UpdateMyCompanyRead(1, u, n)
    \/ UpdateMyCompanyWrite(1)
    \/ \E u \in EmployerUsers, c \in 0 .. MaxCompanies : SelectExistingCompany(u, c)
    \/ \E u \in EmployerUsers, role \in CompanyRoles \cup {Undefined} :
          UpdateEmployerSettings(u, role)

SpecCompanyRoles == InitEmpty /\ [][NextCompanyRoles]_vars

-----------------------------------------------------------------------------
(* The claims *)

\* C1: in every reachable state, whatever the interleaving of the reads and
\* inserts of concurrent apply requests, at most one Application row exists
\* for each (jobId, seekerId) pair.
C1_OneApplicationPerJobAndSeeker ==
    \A a, b \in application :
        (a.jobId = b.jobId /\ a.seekerId = b.seekerId) => a.id = b.id

\* C1: a request has passed its read of an existing application and waits at
\* its insert while the application of the same seeker to the same job,
\* inserted by the other request, is in the table.
C1_Witness ==
    \E r1, r2 \in ApplyReqs :
        /\ r1 # r2
        /\ applyReq[r1].pc = "done" /\ applyReq[r1].code = 201
        /\ applyReq[r2].pc = "insert"
        /\ applyReq[r2].jobId = applyReq[r1].jobId
        /\ applyReq[r2].seekerId = applyReq[r1].seekerId
        /\ UniqueResponseFields(applyReq[r2].responses)
        /\ ExistingApplication(applyReq[r2].jobId, applyReq[r2].seekerId)

\* C7: an apply request that meets an Application of its (jobId, seekerId)
\* pair, at its read or at its insert, is answered 409 and creates no
\* Application and no ApplicationResponse row.
C7_DuplicateApplyIsConflict ==
    [][\A r \in ApplyReqs :
          ( /\ applyReq[r].pc \in {"existing", "insert"}
            /\ applyReq'[r].pc = "done"
            /\ ExistingApplication(applyReq[r].jobId, applyReq[r].seekerId) )
          => ( /\ applyReq'[r].code = 409
               /\ application' = application
               /\ response' = response )]_vars

\* the statuses the specification calls terminal
TerminalStatuses == {"ACCEPTED", "REJECTED", "WITHDRAWN"}

\* employer u has an Employer row and job jobId is a job of that employer
EmployerOwnsJob(u, jobId) ==
    HasEmployer(u) /\ \E jb \in job : jb.id = jobId /\ jb.employerId = u

\* C2: with requests one at a time, an application's status becomes
\* WITHDRAWN only by a withdraw request (either endpoint) of the seeker who
\* owns it, and only from PENDING or REVIEWING.
C2_WithdrawnOnlyFromPendingOrReviewing ==
    [][\A a \in application : \A b \in application' :
          (b.id = a.id /\ a.status # "WITHDRAWN" /\ b.status = "WITHDRAWN")
          => ( /\ a.status \in {"PENDING", "REVIEWING"}
               /\ \/ WithdrawApplication(a.seekerId, a.id)
                  \/ HistoryWithdrawApplication(a.seekerId, a.id) )]_vars

\* C3: once an application's status is ACCEPTED, REJECTED or WITHDRAWN, no
\* request changes it.
C3_TerminalStatusesAreFinal ==
    [][\A a \in application : \A b \in application' :
          (b.id = a.id /\ a.status \in TerminalStatuses) => b.status = a.status]_vars

\* C4: updateApplicationStatus leaves an application unchanged unless the
\* calling employer owns the job the application belongs to.
C4_StatusSetOnlyByOwningEmployer ==
    [][\A u \in EmployerUsers, j \in JobIds, ap \in AppIds, st \in StatusInputs :
          UpdateApplicationStatus(u, j, ap, st)
          => \A a \in application :
                (a.id = ap /\ ~EmployerOwnsJob(u, a.jobId)) => a \in application']_vars

\* a request of NextJobs to one of the operations behind checkJobOwnership
JobScopedRequest(u, j) ==
    \/ UpdateJobDetails(u, j, "T1")
    \/ \E st \in {"PAUSED", "CLOSED"} : UpdateJobStatus(u, j, st)
    \/ DeleteJob(u, j)
    \/ GetJobApplications(u, j)
    \/ \E fs \in SeqsUpTo(NewFieldInputs) : CreateJobForm(u, j, fs)
    \/ \E fs \in SeqsUpTo(OptionalFieldInputs) : UpdateJobForm(u, j, fs)

\* C5: for every caller of role EMPLOYER, with or without an Employer row,
\* a job-scoped request on a job the caller does not own is answered 403
\* and leaves the jobs, their forms and their applications unchanged.
C5_JobScopedRequestsNeedOwnership ==
    [][\A u \in EmployerUsers, j \in JobIds :
          (~EmployerOwnsJob(u, j) /\ JobScopedRequest(u, j))
          => ( /\ last'.code = 403
               /\ UNCHANGED <<job, formField, application, response>> )]_vars

\* some required field of the job's form has no entry among the responses
RequiredFieldUnanswered(jobId, responses) ==
    \E f \in formField :
        /\ f.jobId = jobId /\ f.isRequired
        /\ \A i \in 1 .. Len(responses) : responses[i].fieldId # f.id

\* C6 as stated: an apply to an ACTIVE job the seeker has not applied to is
\* answered 400 exactly if a required field (default or employer-defined)
\* is unanswered, and otherwise creates the Application.
C6_RequiredFieldsElseCreated ==
    [][\A s \in SeekerUsers, j \in JobIds :
          ( /\ last'.op = "applyForJob"
            /\ ActiveJobFound(j) /\ ~ExistingApplication(j, s) )
          => \A rs \in ResponseInputs(j) :
          ApplyForJob(s, j, rs)
          => IF RequiredFieldUnanswered(j, rs)
             THEN last'.code = 400 /\ application' = application
             ELSE /\ last'.code # 400
                  /\ \E a \in application' : a.jobId = j /\ a.seekerId = s]_vars

\* C6 amended: such an apply is answered 400 exactly if a required field is
\* unanswered; otherwise it creates the Application (201) when every
\* submitted fieldId names an existing form field and none is repeated, and
\* else is answered 500 and creates nothing.
C6_RequiredFieldsElseCreatedIfAccepted ==
    [][\A s \in SeekerUsers, j \in JobIds :
          ( /\ last'.op = "applyForJob"
            /\ ActiveJobFound(j) /\ ~ExistingApplication(j, s) )
          => \A rs \in ResponseInputs(j) :
          ApplyForJob(s, j, rs)
          => IF RequiredFieldUnanswered(j, rs)
             THEN last'.code = 400 /\ application' = application
             ELSE IF /\ \A i \in 1 .. Len(rs) : \E f \in formField : f.id = rs[i].fieldId
                     /\ \A i, k \in 1 .. Len(rs) : rs[i].fieldId = rs[k].fieldId => i = k
             THEN /\ last'.code = 201
                  /\ \E a \in application' : a.jobId = j /\ a.seekerId = s
             ELSE last'.code = 500 /\ application' = application]_vars

\* C6: an apply has just been answered 400 although no application exists
\* at all, so for a required field left out, and the forms hold a required
\* employer-defined field.
C6_Witness ==
    /\ last = [op |-> "applyForJob", code |-> 400]
    /\ application = {}
    /\ \E f \in formField : ~f.isDefault /\ f.isRequired

\* C8: a withdraw request, through either endpoint, of the owning seeker on
\* an ACCEPTED, REJECTED or WITHDRAWN application is answered 400 and leaves
\* the application unchanged.
C8_WithdrawOfFinalIsInvalidOperation ==
    [][\A s \in SeekerUsers, ap \in AppIds :
          ( /\ \E a \in application :
                  a.id = ap /\ a.seekerId = s /\ a.status \in TerminalStatuses
            /\ WithdrawApplication(s, ap) \/ HistoryWithdrawApplication(s, ap) )
          => (last'.code = 400 /\ application' = application)]_vars

\* C9 as stated: updateApplicationStatus (past the ownership check) answers
\* a target status other than REVIEWING, SHORTLISTED, INTERVIEWED, ACCEPTED
\* and REJECTED with 400 and leaves every application unchanged.
C9_OnlyFiveTargetStatuses ==
    [][\A u \in EmployerUsers, j \in JobIds, ap \in AppIds, st \in StatusInputs :
          ( /\ UpdateApplicationStatus(u, j, ap, st)
            /\ CheckJobOwnership(u, j) = 0
            /\ st \notin {"REVIEWING", "SHORTLISTED", "INTERVIEWED", "ACCEPTED",
                          "REJECTED"} )
          => (last'.code = 400 /\ application' = application)]_vars

\* C9 amended: the accepted target statuses are PENDING, REVIEWING,
\* SHORTLISTED, INTERVIEWED, ACCEPTED and REJECTED; any other target
\* (WITHDRAWN, an unknown string) is answered 400 and leaves every
\* application unchanged, so an employer never sets WITHDRAWN.
C9_OnlySixTargetStatuses ==
    [][\A st \in StatusInputs \ {"PENDING", "REVIEWING", "SHORTLISTED", "INTERVIEWED",
                                 "ACCEPTED", "REJECTED"} :
          \A u \in EmployerUsers, j \in JobIds, ap \in AppIds :
             (CheckJobOwnership(u, j) = 0 /\ UpdateApplicationStatus(u, j, ap, st))
             => (last'.code = 400 /\ application' = application)]_vars

\* C9: updateApplicationStatus has just refused a target status (400 is its
\* validation answer alone) while an application that is not withdrawn
\* exists.
C9_Witness ==
    /\ last = [op |-> "updateApplicationStatus", code |-> 400]
    /\ \E a \in application : a.status # "WITHDRAWN"

\* C10: in every reachable state, whatever the interleaving of the reads
\* and writes of createCompany and updateMyCompany, no two active companies
\* have names equal after trimming and ignoring letter case.
C10_ActiveCompanyNamesDiffer ==
    \A c, d \in company :
        (c.isActive /\ d.isActive /\ Lower(Trim(c.name)) = Lower(Trim(d.name)))
        => c.id = d.id

-----------------------------------------------------------------------------
(* Deleting an employer account (employer.controller.ts) while jobs are    *)
(* posted and applied to.  deleteEmployerAccount runs six statements in    *)
(* one interactive transaction (READ COMMITTED): each statement sees the   *)
(* rows committed so far, the rows it deletes stay visible to the other    *)
(* requests and locked until the commit, and an insert that references a   *)
(* locked row waits for the transaction to end.                            *)

\* authEmployer for a token of role EMPLOYER: 0 for next(), 404 when the
\* token's user has no User row
AuthEmployer(u) == IF u \in user THEN 0 ELSE 404

\* createJob up to its first write: authEmployer, requireCompany and the
\* check of the body
CreateJobRead(u) ==
    /\ jobReq.pc \in {"idle", "done"}
    /\ jobReq' =
         IF AuthEmployer(u) # 0
         THEN [pc |-> "done", userId |-> u, jobId |-> Null, code |-> AuthEmployer(u)]
         ELSE IF RequireCompany(u) # 0
         THEN [pc |-> "done", userId |-> u, jobId |-> Null, code |-> RequireCompany(u)]
         ELSE [pc |-> "job", userId |-> u, jobId |-> Null, code |-> 0]
    /\ UNCHANGED <<dbVars, last, applyReq, companyReq, user, deleteReq, profileVars, seekerVars, slotVars>>

\* prisma.job.create of createJob: Job_employerId_fkey needs the Employer
\* row; when the row is locked by a delete the insert waits
CreateJobWriteJob ==
    /\ jobReq.pc = "job"
    /\ \A e \in deleteReq.gone.employer : e.userId # jobReq.userId
    /\ IF HasEmployer(jobReq.userId)
       THEN /\ nextId.job <= MaxJobs
            /\ job' = job \cup
                 { [id |-> nextId.job, employerId |-> jobReq.userId,
                    companyId |-> EmployerRow(jobReq.userId).companyId,
                    status |-> "ACTIVE", title |-> "T0"] }
            /\ nextId' = [nextId EXCEPT !.job = @ + 1]
            /\ jobReq' = [jobReq EXCEPT !.pc = "defaults", !.jobId = nextId.job]
            /\ UNCHANGED <<employer, company, formField, application, response>>
       ELSE /\ jobReq' = [jobReq EXCEPT !.pc = "done", !.code = 500]
            /\ UNCHANGED dbVars
    /\ UNCHANGED <<last, applyReq, companyReq, user, deleteReq, profileVars, seekerVars, slotVars>>

\* createDefaultJobFormFields of createJob: JobFormField_jobId_fkey needs the
\* Job row; when the row is locked by a delete the insert waits
CreateJobWriteDefaults ==
    /\ jobReq.pc = "defaults"
    /\ \A jb \in deleteReq.gone.job : jb.id # jobReq.jobId
    /\ IF HasRow(job, jobReq.jobId)
       THEN /\ formField' = formField \cup
                 CreateDefaultJobFormFields(jobReq.jobId, nextId.field)
            /\ nextId' = [nextId EXCEPT !.field = @ + NumDefaultFields]
            /\ jobReq' = [jobReq EXCEPT !.pc = "done", !.code = 201]
            /\ UNCHANGED <<employer, company, job, application, response>>
       ELSE /\ jobReq' = [jobReq EXCEPT !.pc = "done", !.code = 500]
            /\ UNCHANGED dbVars
    /\ UNCHANGED <<last, applyReq, companyReq, user, deleteReq, profileVars, seekerVars, slotVars>>

\* application.create of the request in slot r waits: the Job row or a
\* JobFormField row it references is locked by a delete
ApplyInsertWaits(r) ==
    \/ \E jb \in deleteReq.gone.job : jb.id = applyReq[r].jobId
    \/ \E f \in deleteReq.gone.formField :
          f.id \in ResponseFieldIds(applyReq[r].responses)

\* the jobs of the employer of user u that are committed and not yet deleted
\* by the transaction
JobsOfEmployer(u) == {jb \in job \ deleteReq.gone.job : jb.employerId = u}

\* deleteEmployerAccount up to its transaction: authEmployer, the role
\* check, employer.findUnique
DeleteAccountRead(u) ==
    /\ deleteReq.pc \in {"idle", "done"}
    /\ deleteReq' =
         IF AuthEmployer(u) # 0
         THEN [pc |-> "done", userId |-> u, code |-> AuthEmployer(u), gone |-> NoRows]
         ELSE IF ~HasEmployer(u)
         THEN [pc |-> "done", userId |-> u, code |-> 404, gone |-> NoRows]
         ELSE [pc |-> "responses", userId |-> u, code |-> 0, gone |-> NoRows]
    /\ UNCHANGED <<dbVars, last, applyReq, companyReq, user, jobReq, profileVars, seekerVars, slotVars>>

\* the rows that go with the rows of jobs, fields and apps by ON DELETE
\* CASCADE, added to the rows gone so far
WithCascades(gone, jobs, fields, apps) ==
    LET jobIds == {jb.id : jb \in jobs}
        allFields == fields \cup {f \in formField : f.jobId \in jobIds}
        allApps == apps \cup {a \in application : a.jobId \in jobIds}
        fieldIds == {f.id : f \in allFields}
        appIds == {a.id : a \in allApps}
    IN [gone EXCEPT
          !.job = @ \cup jobs,
          !.formField = @ \cup allFields,
          !.application = @ \cup allApps,
          !.response = @ \cup {r \in response :
                                 r.applicationId \in appIds \/ r.fieldId \in fieldIds}]

\* the store without the foreign key Job_employerId_fkey
EmployerDeleteUnrestricted(u) == FALSE

\* the foreign key Job_employerId_fkey (ON DELETE RESTRICT) refuses the
\* delete of the Employer row of u: a job of that employer is left
EmployerDeleteRestricted(u) == JobsOfEmployer(u) # {}

\* the deleteMany statements of the transaction, in their order
DeleteAccountDeleteMany ==
    LET q == deleteReq
        jobs == JobsOfEmployer(q.userId)
        jobIds == {jb.id : jb \in jobs}
        apps == {a \in application : a.jobId \in jobIds}
    IN /\ q.pc \in {"responses", "applications", "fields", "jobs"}
       /\ deleteReq' =
            IF q.pc = "responses"
            THEN [q EXCEPT !.pc = "applications",
                     !.gone.response = @ \cup
                        {r \in response : r.applicationId \in {a.id : a \in apps}}]
            ELSE IF q.pc = "applications"
            THEN [q EXCEPT !.pc = "fields",
                           !.gone = WithCascades(q.gone, {}, {}, apps)]
            ELSE IF q.pc = "fields"
            THEN [q EXCEPT !.pc = "jobs",
                           !.gone = WithCascades(q.gone, {},
                                       {f \in formField : f.jobId \in jobIds}, {})]
            ELSE [q EXCEPT !.pc = "employer",
                           !.gone = WithCascades(q.gone, jobs, {}, {})]
       /\ UNCHANGED <<dbVars, last, applyReq, companyReq, user, jobReq, profileVars, seekerVars, slotVars>>

\* tx.employer.delete: refused by Job_employerId_fkey, the transaction rolls
\* back and the catch answers 500; else the row is deleted
DeleteAccountDeleteEmployer ==
    LET q == deleteReq
    IN /\ q.pc = "employer"
       /\ deleteReq' =
            IF EmployerDeleteRestricted(q.userId)
            THEN [q EXCEPT !.pc = "done", !.code = 500, !.gone = NoRows]
            ELSE [q EXCEPT !.pc = "user",
                           !.gone.employer = {e \in employer : e.userId = q.userId}]
       /\ UNCHANGED <<dbVars, last, applyReq, companyReq, user, jobReq, profileVars, seekerVars, slotVars>>

\* tx.user.delete and the commit: the rows gone leave the tables
DeleteAccountCommit ==
    LET q == deleteReq
    IN /\ q.pc = "user"
       /\ response' = response \ q.gone.response
       /\ application' = application \ q.gone.application
       /\ formField' = formField \ q.gone.formField
       /\ job' = job \ q.gone.job
       /\ employer' = employer \ q.gone.employer
       /\ user' = user \ {q.userId}
       /\ deleteReq' = [q EXCEPT !.pc = "done", !.code = 200, !.gone = NoRows]
       /\ UNCHANGED <<company, nextId, last, applyReq, companyReq, jobReq, profileVars, seekerVars, slotVars>>

\* Employers E1 and E2 post jobs, seeker S1 applies, and E1 and E2 delete
\* their accounts, all concurrently.
NextAccount ==
    \/ \E u \in {"E1", "E2"} : CreateJobRead(u)
    \/ CreateJobWriteJob
    \/ CreateJobWriteDefaults
    \/ \E j \in JobIds : ApplyReadJob(1, "S1", j, CompleteResponses(j))
    \/ ApplyReadExisting(1)
    \/ ~ApplyInsertWaits(1) /\ ApplyWrite(1)
    \/ \E u \in {"E1", "E2"} : DeleteAccountRead(u)
    \/ DeleteAccountDeleteMany
    \/ DeleteAccountDeleteEmployer
    \/ DeleteAccountCommit

SpecAccount == Init /\ [][NextAccount]_vars

-----------------------------------------------------------------------------
(* The authentication middleware (auth.middleware.ts).  A token is absent, *)
(* fails jwt.verify, or decodes to a payload [id, role]; a guard yields 0  *)
(* when it attaches req.user and calls next(), else the status it answers. *)

Roles == {"JOB_SEEKER", "EMPLOYER"}

NoToken == [kind |-> "none"]
BadToken == [kind |-> "bad"]
Tokens ==
    {NoToken, BadToken}
        \cup {[kind |-> "jwt", id |-> u, role |-> r]
              : u \in EmployerUsers \cup SeekerUsers, r \in Roles}

\* authenticate
Authenticate(t) ==
    IF t = NoToken THEN 401
    ELSE IF t = BadToken THEN 401
    ELSE IF t.id \notin user THEN 404
    ELSE IF StoredRole(t.id) # t.role THEN 401
    ELSE 0

\* authEmployer (required = "EMPLOYER") and authJobSeeker (required =
\* "JOB_SEEKER"): the same checks in the same order
AuthRole(t, required) ==
    IF t = NoToken THEN 401
    ELSE IF t = BadToken THEN 401
    ELSE IF t.role # required THEN 403
    ELSE IF t.id \notin user THEN 404
    ELSE IF StoredRole(t.id) # required THEN 403
    ELSE 0

Guards == {"authenticate", "authEmployer", "authJobSeeker"}

GuardResult(guard, t) ==
    IF guard = "authenticate" THEN Authenticate(t)
    ELSE IF guard = "authEmployer" THEN AuthRole(t, "EMPLOYER")
    ELSE AuthRole(t, "JOB_SEEKER")

\* a request with token t to a route behind the guard: the guard answers,
\* or calls next() (recorded as code 0: the handler runs with req.user)
GuardedRequest(guard, t) ==
    /\ Respond(guard, GuardResult(guard, t))
    /\ UNCHANGED <<dbVars, applyReq, companyReq, accountVars>>

\* Requests with every kind of token while employers delete their accounts.
NextAuth ==
    \/ \E g \in Guards, t \in Tokens : GuardedRequest(g, t)
    \/ \E u \in {"E1", "E2"} : DeleteAccountRead(u)
    \/ DeleteAccountDeleteMany
    \/ DeleteAccountDeleteEmployer
    \/ DeleteAccountCommit

SpecAuth == Init /\ [][NextAuth]_vars

-----------------------------------------------------------------------------
(* checkProfileStatus of the job seeker (jobseeker.controller.ts) and of   *)
(* the employer (employer.controller.ts).  A profile is the role and the   *)
(* set of onboarding steps that the stored rows satisfy.                   *)

SeekerSteps ==
    << "basic_details", "job_seeker_profile", "education", "experience",
       "projects", "preferences" >>
EmployerSteps == << "basic_details", "employer_profile", "company_selection" >>

StepsOf(steps) == {steps[i] : i \in 1 .. Len(steps)}

\* the profiles the stored rows can show: any set of the seeker's steps (a
\* JobSeeker row without skills can have education and the rest); an
\* employer has a companyId only on an Employer row, and
\* createEmployerProfile creates that row only for a user whose basic
\* details are complete
ProfileInputs ==
    {[role |-> "JOB_SEEKER", done |-> d] : d \in SUBSET StepsOf(SeekerSteps)}
        \cup {[role |-> "EMPLOYER", done |-> d]
              : d \in {x \in SUBSET StepsOf(EmployerSteps)
                         : /\ "company_selection" \in x => "employer_profile" \in x
                           /\ "employer_profile" \in x => "basic_details" \in x}}

\* Math.round((num / den) * 100) for 0 <= num <= den: halves round up
MathRoundPercent(num, den) == (200 * num + den) \div (2 * den)

\* the step after as many steps as are satisfied, whichever they are
SeekerNextStepByCount(done) ==
    IF Cardinality(done) = Len(SeekerSteps) THEN "complete"
    ELSE SeekerSteps[Cardinality(done) + 1]

\* the if-chain of the job seeker's checkProfileStatus
SeekerNextStep(done) ==
    IF "basic_details" \notin done THEN "basic_details"
    ELSE IF "job_seeker_profile" \notin done THEN "job_seeker_profile"
    ELSE IF "education" \notin done THEN "education"
    ELSE IF "experience" \notin done THEN "experience"
    ELSE IF "projects" \notin done THEN "projects"
    ELSE IF "preferences" \notin done THEN "preferences"
    ELSE "complete"

\* profileStatus of the job seeker's answer: the percentage of the if-chain
\* is overwritten with the rounded share of the completed sections
SeekerProfileStatus(done) ==
    LET completedSections == Cardinality(done)
        totalSections == Len(SeekerSteps)
        completionPercentage == MathRoundPercent(completedSections, totalSections)
    IN [nextStep |-> SeekerNextStep(done),
        completionPercentage |-> completionPercentage,
        isComplete |-> (completionPercentage = 100)]

\* the if-chain of the employer's checkProfileStatus: nextStep and
\* completionPercentage are set together
EmployerProfileStatus(done) ==
    IF "basic_details" \notin done
    THEN [nextStep |-> "basic_details", completionPercentage |-> 0]
    ELSE IF "employer_profile" \notin done
    THEN [nextStep |-> "employer_profile", completionPercentage |-> 33]
    ELSE IF "company_selection" \notin done
    THEN [nextStep |-> "company_selection", completionPercentage |-> 66]
    ELSE [nextStep |-> "complete", completionPercentage |-> 100]

\* GET /api/jobseeker/profile-status
CheckSeekerProfileStatus ==
    /\ profile.role = "JOB_SEEKER"
    /\ profileStatus' = SeekerProfileStatus(profile.done)
    /\ Respond("checkProfileStatus", 200)
    /\ UNCHANGED <<dbVars, applyReq, companyReq, user, jobReq, deleteReq, profile, seekerVars, slotVars>>

\* GET /api/employer/profile-status
CheckEmployerProfileStatus ==
    /\ profile.role = "EMPLOYER"
    /\ profileStatus' = EmployerProfileStatus(profile.done)
    /\ Respond("checkProfileStatus", 200)
    /\ UNCHANGED <<dbVars, applyReq, companyReq, user, jobReq, deleteReq, profile, seekerVars, slotVars>>

\* a user of either role with any profile asks for its status
InitProfile ==
    /\ employer = {}
    /\ company = {}
    /\ job = {}
    /\ formField = {}
    /\ application = {}
    /\ response = {}
    /\ nextId = [company |-> 1, job |-> 1, field |-> 1, app |-> 1]
    /\ last = [op |-> "none", code |-> 0]
    /\ applyReq = [r \in ApplyReqs |-> IdleApplyReq]
    /\ companyReq = [r \in CompanyReqs |-> IdleCompanyReq]
    /\ user = EmployerUsers \cup SeekerUsers
    /\ jobReq = IdleJobReq
    /\ deleteReq = IdleDeleteReq
    /\ profile \in ProfileInputs
    /\ profileStatus = NoProfileStatus
    /\ jobSeeker = SeekerUsers
    /\ readReq = IdleReadReq
    /\ dashReq = IdleDashReq
    /\ withdrawReq = IdleWithdrawReq
    /\ jobView = NoJobView

NextProfile == CheckSeekerProfileStatus \/ CheckEmployerProfileStatus

SpecProfile == InitProfile /\ [][NextProfile]_vars

-----------------------------------------------------------------------------
(* The seeker's reads of applications (jobForJobseeker.controller.ts,      *)
(* applicationHistory.controller.ts).  Both routers put authJobSeeker and  *)
(* requireCompleteProfile before the handler; each of the three awaits its *)
(* own query, so a read is three steps.                                    *)

\* POST /api/jobseeker/profile: authenticate, createJobSeekerProfile (the
\* body passes the schema); the handler does not look at the user's role
CreateJobSeekerProfile(u) ==
    /\ u \in user
    /\ IF u \in jobSeeker
       THEN /\ Respond("createJobSeekerProfile", 400)
            /\ UNCHANGED jobSeeker
       ELSE /\ jobSeeker' = jobSeeker \cup {u}
            /\ Respond("createJobSeekerProfile", 201)
    /\ UNCHANGED <<dbVars, applyReq, companyReq, user, jobReq, deleteReq,
                   profileVars, readReq, slotVars>>

\* the handlers that read applications for a seeker
ById == {"getApplicationById", "getApplicationDetails"}
Listing == {"getMyApplications", "getMyApplicationHistory"}
ByChecked == {"getApplicationById", "getMyApplications"}

\* the where clause {seekerId: req.user.jobSeekerId}: Prisma drops a filter
\* whose value is undefined
SeekerFilter(a, seekerId) == seekerId = Undefined \/ a.seekerId = seekerId

\* the slot of a read that has been answered: the status and the ids of the
\* applications in the answer
AnsweredReadReq(q, code, apps) ==
    [q EXCEPT !.pc = "done", !.code = code, !.apps = apps]

\* authJobSeeker of a read request: req.user.jobSeekerId is
\* user.jobSeeker?.id; param is :applicationId or :jobSeekerId
ReadAuth(u, kind, param) ==
    /\ readReq.pc \in {"idle", "done"}
    /\ LET q == [pc |-> "profile", kind |-> kind, userId |-> u,
                 jobSeekerId |-> IF u \in jobSeeker THEN u ELSE Undefined,
                 param |-> param, code |-> 0, apps |-> {}]
       IN readReq' = IF u \notin user THEN AnsweredReadReq(q, 404, {})
                     ELSE IF StoredRole(u) # "JOB_SEEKER"
                          THEN AnsweredReadReq(q, 403, {})
                     ELSE q
    /\ UNCHANGED <<dbVars, last, applyReq, companyReq, user, jobReq, deleteReq,
                   profileVars, jobSeeker, slotVars>>

\* requireCompleteProfile of a read request: jobSeeker.findUnique by userId
ReadRequireProfile ==
    /\ readReq.pc = "profile"
    /\ readReq' = IF readReq.userId \notin jobSeeker
                  THEN AnsweredReadReq(readReq, 400, {})
                  ELSE [readReq EXCEPT !.pc = "handler"]
    /\ UNCHANGED <<dbVars, last, applyReq, companyReq, user, jobReq, deleteReq,
                   profileVars, jobSeeker, slotVars>>

\* the answer of the handler of read q
ReadAnswer(q) ==
    LET sid == q.jobSeekerId
        mine == {a \in application : SeekerFilter(a, sid)}
        found == {a \in mine : a.id = q.param}
    IN IF q.kind \in ByChecked /\ sid = Undefined
       THEN AnsweredReadReq(q, 400, {})
       ELSE IF q.kind \in ById
       THEN IF found = {} THEN AnsweredReadReq(q, 404, {})
            ELSE AnsweredReadReq(q, 200, {a.id : a \in found})
       ELSE IF q.kind \in Listing
       THEN AnsweredReadReq(q, 200, {a.id : a \in mine})
       ELSE IF sid # q.param THEN AnsweredReadReq(q, 403, {})
       ELSE IF q.param \notin jobSeeker THEN AnsweredReadReq(q, 404, {})
       ELSE AnsweredReadReq(q, 200,
                {a.id : a \in {x \in application : x.seekerId = q.param}})

\* the handler of a read request
ReadHandler ==
    /\ readReq.pc = "handler"
    /\ readReq' = ReadAnswer(readReq)
    /\ Respond(readReq.kind, readReq'.code)
    /\ UNCHANGED <<dbVars, applyReq, companyReq, user, jobReq, deleteReq,
                   profileVars, jobSeeker, slotVars>>

\* The store after onboarding (Init) with seeker S1 having a JobSeeker row
\* and seeker S2 none yet.
InitReads ==
    /\ employer = { [userId |-> "E1", companyId |-> 1, role |-> "ADMIN"],
                    [userId |-> "E2", companyId |-> 1, role |-> "RECRUITER"] }
    /\ company = { [id |-> 1, name |-> <<"a", "b">>, isActive |-> TRUE,
                   website |-> NoText, description |-> NoText] }
    /\ job = {}
    /\ formField = {}
    /\ application = {}
    /\ response = {}
    /\ nextId = [company |-> 2, job |-> 1, field |-> 1, app |-> 1]
    /\ last = [op |-> "none", code |-> 0]
    /\ applyReq = [r \in ApplyReqs |-> IdleApplyReq]
    /\ companyReq = [r \in CompanyReqs |-> IdleCompanyReq]
    /\ user = EmployerUsers \cup SeekerUsers
    /\ jobReq = IdleJobReq
    /\ deleteReq = IdleDeleteReq
    /\ profile = NewEmployerProfile
    /\ profileStatus = NoProfileStatus
    /\ jobSeeker = {"S1"}
    /\ readReq = IdleReadReq
    /\ dashReq = IdleDashReq
    /\ withdrawReq = IdleWithdrawReq
    /\ jobView = NoJobView

\* E1 posts jobs, S1 applies, S2 creates its profile, and both seekers read
\* applications.
NextReads ==
    \/ CreateJob("E1", "t")
    \/ \E j \in JobIds : ApplyForJob("S1", j, CompleteResponses(j))
    \/ CreateJobSeekerProfile("S2")
    \/ \E u \in SeekerUsers, k \in ById, a \in AppIds : ReadAuth(u, k, a)
    \/ \E u \in SeekerUsers, k \in Listing : ReadAuth(u, k, Null)
    \/ \E u, s \in SeekerUsers : ReadAuth(u, "getApplicationHistory", s)
    \/ ReadRequireProfile
    \/ ReadHandler

SpecReads == InitReads /\ [][NextReads]_vars

-----------------------------------------------------------------------------
(* getDashboardStats (employerDashboard.controller.ts).  The handler counts *)
(* the applications and groups them by status in separate queries, with no *)
(* transaction around them.                                                *)

\* the applications of the jobs the employer posted for the company
DashboardApplications(employerId, companyId) ==
    {a \in application :
        \E jb \in job : /\ jb.id = a.jobId
                        /\ jb.employerId = employerId
                        /\ jb.companyId = companyId}

\* JavaScript's Infinity, which Math.round keeps and JSON writes as null
Infinity == -1

\* Math.round((num / den) * 100) || 0 for num, den >= 0: 0 / 0 is NaN, which
\* || 0 turns into 0; num / 0 is Infinity, which is truthy and stays
RoundPercentOrZero(num, den) ==
    IF den = 0 THEN (IF num = 0 THEN 0 ELSE Infinity)
    ELSE MathRoundPercent(num, den)

\* prisma.application.groupBy({by: ['status']}): one row per status that
\* some application has, with the number of those applications
GroupByStatus(apps) ==
    {[status |-> st, count |-> Cardinality({a \in apps : a.status = st})]
        : st \in {a.status : a \in apps}}

\* stat?._count.id || 0 of applicationStatusStats.find(status)
CountOf(groups, status) ==
    IF \E g \in groups : g.status = status
    THEN (CHOOSE g \in groups : g.status = status).count
    ELSE 0

\* GET /api/employer/dashboard: authEmployer, requireCompany, then
\* getDashboardStats up to prisma.application.count (totalApplicants)
DashboardCount(u) ==
    /\ dashReq.pc \in {"idle", "done"}
    /\ LET q == [IdleDashReq EXCEPT !.userId = u]
       IN dashReq' =
            IF RequireCompany(u) # 0
            THEN [q EXCEPT !.pc = "done", !.code = RequireCompany(u)]
            ELSE [q EXCEPT !.pc = "group",
                           !.totalApplicants =
                               Cardinality(DashboardApplications(
                                   EmployerIdOf(u), EmployerRow(u).companyId))]
    /\ UNCHANGED <<dbVars, last, applyReq, companyReq, user, jobReq, deleteReq,
                   profileVars, seekerVars, withdrawReq, jobView>>

\* getDashboardStats from prisma.application.groupBy to the answer
DashboardGroup ==
    /\ dashReq.pc = "group"
    /\ HasEmployer(dashReq.userId)
    /\ LET u == dashReq.userId
           total == dashReq.totalApplicants
           stats == GroupByStatus(DashboardApplications(
                        EmployerIdOf(u), EmployerRow(u).companyId))
           shortlisted == CountOf(stats, "SHORTLISTED")
           pending == CountOf(stats, "PENDING")
       IN dashReq' =
            [dashReq EXCEPT
               !.pc = "done", !.code = 200,
               !.dist = {[status |-> g.status, count |-> g.count,
                          percentage |-> RoundPercentOrZero(g.count, total)]
                         : g \in stats},
               !.conversionRate =
                   IF total > 0 THEN MathRoundPercent(shortlisted, total) ELSE 0,
               !.responseRate =
                   IF total > 0
                   THEN MathRoundPercent(total - pending, total) ELSE 0]
    /\ Respond("getDashboardStats", 200)
    /\ UNCHANGED <<dbVars, applyReq, companyReq, user, jobReq, deleteReq,
                   profileVars, seekerVars, withdrawReq, jobView>>

\* E1 posts jobs, the seekers apply, E1 sets statuses and asks for its
\* dashboard.
NextDashboard ==
    \/ CreateJob("E1", "t")
    \/ \E sk \in SeekerUsers, j \in JobIds : ApplyForJob(sk, j, CompleteResponses(j))
    \/ \E a \in AppIds, st \in {"SHORTLISTED", "REJECTED"} :
          UpdateApplicationStatus("E1", 1, a, st)
    \/ DashboardCount("E1")
    \/ DashboardGroup

SpecDashboard == Init /\ [][NextDashboard]_vars

-----------------------------------------------------------------------------
(* JobSeekerController.withdrawApplication split at its awaits: the        *)
(* findFirst and the update are separate statements.                       *)

\* PATCH /api/jobseekers/applications/:applicationId/withdraw up to its
\* application.findFirst
WithdrawRead(sk, appId) ==
    /\ withdrawReq.pc \in {"idle", "done"}
    /\ withdrawReq' =
         IF WithdrawableFound(sk, appId)
         THEN [pc |-> "write", userId |-> sk, appId |-> appId, code |-> 0]
         ELSE [pc |-> "done", userId |-> sk, appId |-> appId, code |-> 404]
    /\ UNCHANGED <<dbVars, last, applyReq, companyReq, user, jobReq, deleteReq,
                   profileVars, seekerVars, dashReq, jobView>>

\* application.update({where: {id}, data: {status: 'WITHDRAWN'}}) and the
\* answer
WithdrawWrite ==
    /\ withdrawReq.pc = "write"
    /\ IF HasRow(application, withdrawReq.appId)
       THEN /\ SetStatus(withdrawReq.appId, "WITHDRAWN")
            /\ withdrawReq' = [withdrawReq EXCEPT !.pc = "done", !.code = 200]
            /\ Respond("withdrawApplication", 200)
            /\ UNCHANGED <<employer, company, job, formField, response, nextId>>
       ELSE /\ withdrawReq' = [withdrawReq EXCEPT !.pc = "done", !.code = 500]
            /\ Respond("withdrawApplication", 500)
            /\ UNCHANGED dbVars
    /\ UNCHANGED <<applyReq, companyReq, user, jobReq, deleteReq,
                   profileVars, seekerVars, dashReq, jobView>>

\* E1 posts a job, S1 applies and withdraws while E1 sets the status of the
\* application.
NextWithdrawRace ==
    \/ CreateJob("E1", "t")
    \/ \E j \in JobIds : ApplyForJob("S1", j, CompleteResponses(j))
    \/ \E a \in AppIds : WithdrawRead("S1", a)
    \/ WithdrawWrite
    \/ \E a \in AppIds, st \in StatusInputs : UpdateApplicationStatus("E1", 1, a, st)

SpecWithdrawRace == Init /\ [][NextWithdrawRace]_vars

-----------------------------------------------------------------------------
(* Role profiles: every user may ask for either profile.                   *)

\* The store after sign-up: users of both roles, no profile rows.
InitSignedUp ==
    /\ employer = {}
    /\ company = {}
    /\ job = {}
    /\ formField = {}
    /\ application = {}
    /\ response = {}
    /\ nextId = [company |-> 1, job |-> 1, field |-> 1, app |-> 1]
    /\ last = [op |-> "none", code |-> 0]
    /\ applyReq = [r \in ApplyReqs |-> IdleApplyReq]
    /\ companyReq = [r \in CompanyReqs |-> IdleCompanyReq]
    /\ user = EmployerUsers \cup SeekerUsers
    /\ jobReq = IdleJobReq
    /\ deleteReq = IdleDeleteReq
    /\ profile = NewEmployerProfile
    /\ profileStatus = NoProfileStatus
    /\ jobSeeker = {}
    /\ readReq = IdleReadReq
    /\ dashReq = IdleDashReq
    /\ withdrawReq = IdleWithdrawReq
    /\ jobView = NoJobView

NextRoleProfiles ==
    \/ \E u \in EmployerUsers \cup SeekerUsers : CreateEmployerProfile(u)
    \/ \E u \in EmployerUsers \cup SeekerUsers : CreateJobSeekerProfile(u)

SpecRoleProfiles == InitSignedUp /\ [][NextRoleProfiles]_vars

-----------------------------------------------------------------------------
(* Company roles where one employer creates the companies.                 *)

\* PUT /api/employer/profile: authEmployer, updateEmployerProfile; the body
\* carries name, phone, location, profilePicture, jobTitle, department, none
\* of which is a column of the model
UpdateEmployerProfile(u) ==
    /\ Respond("updateEmployerProfile", IF HasEmployer(u) THEN 200 ELSE 404)
    /\ UNCHANGED <<dbVars, applyReq, companyReq, accountVars>>

\* E1 and E2 create their profiles; E1 alone creates companies; both join
\* companies and change their settings and profiles.
NextAdmin ==
    \/ \E u \in {"E1", "E2"} : CreateEmployerProfile(u)
    \/ \E n \in {<<"a", "b">>, <<"c", "d">>} : CreateCompanyRead(1, "E1", n)
    \/ CreateCompanyWrite(1)
    \/ \E u \in {"E1", "E2"}, c \in 1 .. MaxCompanies : SelectExistingCompany(u, c)
    \/ \E u \in {"E1", "E2"}, role \in CompanyRoles \cup {Undefined} :
          UpdateEmployerSettings(u, role)
    \/ \E u \in {"E1", "E2"} : UpdateEmployerProfile(u)

SpecAdmin == InitEmpty /\ [][NextAdmin]_vars

-----------------------------------------------------------------------------

(* GET /api/jobs/:jobId: optionalAuth, then getJobById (job.controller.ts). *)

\* req.user when optionalAuth attached none
NoUser == [id |-> "", role |-> "", jobSeekerId |-> Undefined]

\* optionalAuth: without a token, with a token jwt.verify rejects, or with a
\* payload that matches no stored user and role, next() runs without
\* req.user; else req.user is the selected User columns, which carry no
\* jobSeekerId
OptionalAuth(t) ==
    IF t = NoToken THEN NoUser
    ELSE IF t = BadToken THEN NoUser
    ELSE IF t.id \in user /\ StoredRole(t.id) = t.role
    THEN [id |-> t.id, role |-> t.role, jobSeekerId |-> Undefined]
    ELSE NoUser

\* hasApplied of getJobById for the req.user the middleware left
HasApplied(reqUser, jobId) ==
    /\ reqUser # NoUser
    /\ reqUser.role = "JOB_SEEKER"
    /\ reqUser.jobSeekerId # Undefined
    /\ ExistingApplication(jobId, reqUser.jobSeekerId)

\* getJobById: 404 for a missing job, else 200 with the job and hasApplied
GetJobById(t, jobId) ==
    /\ IF ~HasRow(job, jobId)
       THEN /\ jobView' = [code |-> 404, hasApplied |-> FALSE]
            /\ Respond("getJobById", 404)
       ELSE /\ jobView' = [code |-> 200,
                           hasApplied |-> HasApplied(OptionalAuth(t), jobId)]
            /\ Respond("getJobById", 200)
    /\ UNCHANGED <<dbVars, applyReq, companyReq, user, jobReq, deleteReq,
                   profileVars, seekerVars, dashReq, withdrawReq>>

\* E1 posts jobs, the seekers apply, and anyone views a job with any token.
NextJobView ==
    \/ CreateJob("E1", "t")
    \/ \E s \in SeekerUsers, j \in JobIds : ApplyForJob(s, j, CompleteResponses(j))
    \/ \E t \in Tokens, j \in JobIds : GetJobById(t, j)

SpecJobView == Init /\ [][NextJobView]_vars

-----------------------------------------------------------------------------
(* updateMyCompany with bodies that carry any subset of name, website and *)
(* description.                                                            *)

\* bodies that pass updateCompanySchema (createCompanySchema.partial()): a
\* website is a URL or the empty string
CompanyBodies ==
    [name : {<<>>, <<"c", "d">>},
     website : {Undefined, "", "https://w"},
     description : {Undefined, "description one", "description two"}]

\* E1 (ADMIN of company 1) and E2 (RECRUITER) send updates, one at a time.
NextCompanyFields ==
    \/ \E u \in {"E1", "E2"}, b \in CompanyBodies : UpdateMyCompanyReadBody(1, u, b)
    \/ UpdateMyCompanyWrite(1)

SpecCompanyFields == Init /\ [][NextCompanyFields]_vars

-----------------------------------------------------------------------------
\* some active company has the name, both trimmed and letter case ignored
ActiveCompanyNamed(name) ==
    {c \in company : c.isActive /\ Lower(Trim(c.name)) = Lower(Trim(name))}

\* C11: a createCompany request of an employer whose name, trimmed and
\* letter case ignored, equals the name of an active company (with or
\* without trailing space on either side) is answered 409 with the id of
\* such a company as suggestion, creates no Company row and leaves the
\* employers, so the caller's companyId and role, unchanged.
C11_DuplicateNameIsConflict ==
    [][\A r \in CompanyReqs :
          (companyReq[r].pc \in {"idle", "done"} /\ companyReq'[r] # companyReq[r])
          => \A u \in EmployerUsers, n \in NameInputs :
                ( /\ HasEmployer(u)
                  /\ ActiveCompanyNamed(n) # {}
                  /\ CreateCompanyRead(r, u, n) )
                => ( /\ companyReq'[r].pc = "done"
                     /\ companyReq'[r].code = 409
                     /\ companyReq'[r].suggestion \in {c.id : c \in ActiveCompanyNamed(n)}
                     /\ company' = company
                     /\ employer' = employer )]_vars

\* C11: a createCompany request has been answered 409 with the id of an
\* active company as suggestion, while an employer of a company exists.
C11_Witness ==
    \E r \in CompanyReqs :
        /\ companyReq[r].pc = "done" /\ companyReq[r].kind = "create"
        /\ companyReq[r].code = 409
        /\ \E c \in company : c.isActive /\ c.id = companyReq[r].suggestion
        /\ \E e \in employer : e.companyId # Null

\* C12: in every state reached through the form requests, every job has
\* exactly its five default fields, each with the label, field type,
\* required flag and order it was seeded with.
C12_DefaultFieldsImmutable ==
    \A jb \in job :
        LET defaults == {f \in formField : f.jobId = jb.id /\ f.isDefault}
        IN /\ Cardinality(defaults) = NumDefaultFields
           /\ \A i \in 1 .. NumDefaultFields :
                 \E f \in defaults :
                    /\ f.label = DefaultFieldDefs[i].label
                    /\ f.fieldType = DefaultFieldDefs[i].fieldType
                    /\ f.isRequired
                    /\ f.order = i

\* C13 as stated: deleteJobFormField on a default field is answered 400
\* for every caller, and the field is still there.
C13_DefaultFieldDeleteIsInvalidOperation ==
    [][last'.op = "deleteJobFormField"
       => \A u \in EmployerUsers, j \in JobIds, f \in UpdatableFieldIds :
             ( /\ HasRow(formField, f) /\ Row(formField, f).isDefault
               /\ DeleteJobFormField(u, j, f) )
             => (last'.code = 400 /\ Row(formField, f) \in formField')]_vars

\* C13 amended: deleteJobFormField on a default field is answered 400 for
\* a caller that passes the ownership check of the request's job and 403
\* for a caller that does not; in both cases the field is still there,
\* unchanged.
C13_DefaultFieldDeleteIsRefused ==
    [][last'.op = "deleteJobFormField"
       => \A u \in EmployerUsers, j \in JobIds, f \in UpdatableFieldIds :
             ( /\ HasRow(formField, f) /\ Row(formField, f).isDefault
               /\ DeleteJobFormField(u, j, f) )
             => ( /\ last'.code = IF CheckJobOwnership(u, j) = 0 THEN 400 ELSE 403
                  /\ Row(formField, f) \in formField' )]_vars

\* C13: deleteJobFormField has just refused to delete a default field (its
\* only answer 400), and the default fields of the jobs are all there.
C13_Witness ==
    /\ last = [op |-> "deleteJobFormField", code |-> 400]
    /\ job # {}
    /\ \A jb \in job :
          Cardinality({f \in formField : f.jobId = jb.id /\ f.isDefault})
             = NumDefaultFields

\* a step of applyForJob creates nothing at all, or one Application of the
\* seeker and the job together with exactly one ApplicationResponse per
\* submitted answer
ApplyIsAllOrNothing ==
    last'.op = "applyForJob"
    => \A s \in SeekerUsers, j \in JobIds : \A rs \in ResponseInputs(j) :
          ApplyForJob(s, j, rs)
          => \/ application' = application /\ response' = response
             \/ \E a \in application' \ application :
                   LET new == response' \ response
                   IN /\ application' = application \cup {a}
                      /\ a.jobId = j /\ a.seekerId = s
                      /\ response \subseteq response'
                      /\ new = { [applicationId |-> a.id, fieldId |-> rs[i].fieldId]
                                 : i \in 1 .. Len(rs) }
                      /\ Cardinality(new) = Len(rs)

DeletedAccountsAreGone ==
    \A u \in EmployerUsers \ user :
        /\ \A e \in employer : e.userId # u
        /\ \A jb \in job : jb.employerId # u

\* every JobFormField and Application belongs to a Job that exists, every
\* ApplicationResponse to an Application and a JobFormField that exist
NoOrphanRows ==
    /\ \A f \in formField : \E jb \in job : jb.id = f.jobId
    /\ \A a \in application : \E jb \in job : jb.id = a.jobId
    /\ \A r \in response :
          /\ \E a \in application : a.id = r.applicationId
          /\ \E f \in formField : f.id = r.fieldId

\* C15: when deleteEmployerAccount succeeds, the User row, the Employer row
\* and every Job of that employer are gone, with every JobFormField,
\* Application and ApplicationResponse of those jobs, and stay gone whatever
\* requests run concurrently; every other step of the request, the failing
\* one included, deletes no row.
C15_AccountDeleteIsAtomic ==
    [][/\ DeletedAccountsAreGone' /\ NoOrphanRows'
       /\ deleteReq' # deleteReq
          => IF deleteReq'.pc = "done" /\ deleteReq'.code = 200
             THEN LET u == deleteReq.userId
                      jobIds == {jb.id : jb \in {x \in job : x.employerId = u}}
                  IN /\ u \notin user'
                     /\ \A f \in formField' : f.jobId \notin jobIds
                     /\ \A a \in application' : a.jobId \notin jobIds
                     /\ \A jb \in job' : jb.id \notin jobIds
             ELSE UNCHANGED <<dbVars, user>>]_vars

\* C15: an account has been deleted with a job that had an application (the
\* application is gone), and a createJob request of the same employer that
\* ran concurrently was refused.
C15_Witness ==
    /\ deleteReq.pc = "done" /\ deleteReq.code = 200
    /\ deleteReq.userId \notin user
    /\ nextId.app > 1 /\ application = {}
    /\ jobReq.pc = "done" /\ jobReq.code = 500 /\ jobReq.userId = deleteReq.userId

\* the token is missing, fails verification, names no User row, or carries
\* a role other than the stored one or the one the guard requires
TokenToRefuse(guard, t) ==
    \/ t \in {NoToken, BadToken}
    \/ t.id \notin user
    \/ t.role # StoredRole(t.id)
    \/ guard = "authEmployer" /\ t.role # "EMPLOYER"
    \/ guard = "authJobSeeker" /\ t.role # "JOB_SEEKER"

\* C16: a request whose token is missing, invalid, names a user without
\* User row, or carries a role other than the stored or the required one
\* is answered 401 by authenticate, authEmployer and authJobSeeker, and
\* the handler does not run.
C16_GuardsFailClosedWithUnauthorized ==
    [][\A g \in Guards, t \in Tokens :
          (TokenToRefuse(g, t) /\ GuardedRequest(g, t)) => last'.code = 401]_vars

\* the number of steps of the role of the profile
TotalSteps == IF profile.role = "JOB_SEEKER" THEN 6 ELSE 3

\* C17: the completionPercentage that checkProfileStatus answers is the
\* integer nearest to 100 * completedSteps / totalSteps, for both roles.
C17_PercentageIsRoundedShare ==
    last.op = "checkProfileStatus"
    => LET p == profileStatus.completionPercentage
           exact == 100 * Cardinality(profile.done)
       IN /\ 2 * (exact - p * TotalSteps) <= TotalSteps
          /\ 2 * (p * TotalSteps - exact) <= TotalSteps

\* the first step, in the order of steps, that done leaves out; "complete"
\* when there is none
FirstUnsatisfied(steps, done) ==
    IF \A i \in 1 .. Len(steps) : steps[i] \in done THEN "complete"
    ELSE steps[CHOOSE i \in 1 .. Len(steps) :
                  /\ steps[i] \notin done
                  /\ \A k \in 1 .. i - 1 : steps[k] \in done]

\* C18: the nextStep that checkProfileStatus answers is the first
\* unsatisfied step in the role's order, it is "complete" exactly when
\* every step is satisfied, and for a seeker that is exactly when
\* isComplete holds (completionPercentage = 100).
C18_NextStepIsFirstUnsatisfied ==
    last.op = "checkProfileStatus"
    => LET steps == IF profile.role = "JOB_SEEKER" THEN SeekerSteps ELSE EmployerSteps
       IN /\ profileStatus.nextStep = FirstUnsatisfied(steps, profile.done)
          /\ profileStatus.nextStep = "complete" <=> profile.done = StepsOf(steps)
          /\ profile.role = "JOB_SEEKER"
             => /\ profileStatus.isComplete <=> profileStatus.nextStep = "complete"
                /\ profileStatus.isComplete <=> profileStatus.completionPercentage = 100

\* C18: a seeker with a later step satisfied (preferences) and an earlier
\* one not (projects) has been answered.
C18_Witness ==
    /\ last.op = "checkProfileStatus"
    /\ profile.role = "JOB_SEEKER"
    /\ "preferences" \in profile.done /\ "projects" \notin profile.done
    /\ profileStatus.nextStep # ""

\* the names a request of updateMyCompany carries, <<>> for none
UpdateNameInputs == NameInputs \cup {<<>>}

\* a step of updateMyCompany's company.update changes no company other than
\* the one its permission check was made for
UpdateWritesCheckedCompany(r) ==
    UpdateMyCompanyWrite(r)
    => /\ \A c \in company : c.id # companyReq[r].companyId => c \in company'
       /\ \A c \in company' : c.id # companyReq[r].companyId => c \in company

\* a request of updateMyCompany goes on to company.update only if, at its
\* permission check, the caller's stored role is ADMIN or HR_MANAGER and the
\* company it will update is the caller's stored companyId
UpdateAdmittedOnlyForManagers(r, u) ==
    companyReq'[r].pc = "write"
    => /\ HasEmployer(u)
       /\ EmployerRow(u).role \in {"ADMIN", "HR_MANAGER"}
       /\ companyReq'[r].companyId = EmployerRow(u).companyId

\* the caller's stored role is RECRUITER or HIRING_MANAGER
StoredRoleIsJunior(u) ==
    HasEmployer(u) /\ EmployerRow(u).role \in {"RECRUITER", "HIRING_MANAGER"}

C20_SelectSetsOnlyCallersCompany ==
    [][last'.op = "selectExistingCompany"
         => \A u \in EmployerUsers, c \in 1 .. MaxCompanies :
              (HasEmployer(u) /\ SelectExistingCompany(u, c))
              => /\ IF \E co \in company : co.id = c /\ co.isActive
                    THEN /\ last'.code = 200
                         /\ employer' = (employer \ {EmployerRow(u)})
                              \cup {[EmployerRow(u) EXCEPT !.companyId = c]}
                    ELSE /\ last'.code = 404
                         /\ employer' = employer
                 /\ company' = company]_vars

\* C20: a select has been answered 200 and two employers who each created
\* a company (both are ADMIN) now have the same companyId: one of them
\* selected the other's company over the one it had.
C20_Witness ==
    /\ last = [op |-> "selectExistingCompany", code |-> 200]
    /\ \E e1, e2 \in employer :
          /\ e1.userId # e2.userId
          /\ e1.role = "ADMIN" /\ e2.role = "ADMIN"
          /\ e1.companyId = e2.companyId /\ e1.companyId # Null

\* C21: an answered read of applications by a seeker (getMyApplications,
\* getApplicationById, getApplicationDetails, getMyApplicationHistory,
\* getApplicationHistory) carries only applications whose seekerId is the
\* caller's; and a read by id of an application of another seeker is
\* answered as a read of an id that names no application: 404.
C21_SeekerReadsOnlyOwnApplications ==
    readReq.pc = "done"
    => /\ \A a \in application :
             a.id \in readReq.apps => a.seekerId = readReq.userId
       /\ (readReq.kind \in ById /\ readReq.userId \in jobSeeker
             /\ ~(\E a \in application :
                     a.id = readReq.param /\ a.seekerId = readReq.userId))
          => readReq.code \in {400, 404}

\* C22: in an answered getDashboardStats, every entry of the status
\* distribution has the percentage nearest to 100 * count / totalApplicants,
\* and when totalApplicants is 0 every percentage in the answer is 0 and so
\* are conversionRate and responseRate.
C22_DistributionPercentages ==
    (dashReq.pc = "done" /\ dashReq.code = 200)
    => LET total == dashReq.totalApplicants
       IN /\ \A e \in dashReq.dist :
                IF total = 0 THEN e.percentage = 0
                ELSE /\ 2 * (100 * e.count - e.percentage * total) <= total
                     /\ 2 * (e.percentage * total - 100 * e.count) <= total
          /\ total = 0 => dashReq.conversionRate = 0 /\ dashReq.responseRate = 0

\* C23: whatever the interleaving of withdrawApplication's read and write
\* with the employer's updateApplicationStatus, the status that the
\* withdraw write overwrites is PENDING or REVIEWING.
C23_WithdrawOverwritesOnlyOpenStatus ==
    [][withdrawReq.pc = "write"
         => \A a \in application :
              (a.id = withdrawReq.appId /\ WithdrawWrite)
              => a.status \in {"PENDING", "REVIEWING"}]_vars

\* the rows created for the elements of fields, all of them new fields,
\* carry the required flags of the elements: the i-th row created has the
\* isRequired of fields[i]
StoredAsSubmitted(fields) ==
    \A i \in 1 .. Len(fields) :
        \A f \in formField' :
            f.id = nextId.field + i - 1 => f.isRequired = fields[i].isRequired

\* C24: createJobForm and updateJobForm store the required flag of every
\* employer-defined field they create as it was submitted, a field
\* submitted with isRequired = false included.
C24_RequiredFlagStoredAsSubmitted ==
    [][\A j \in JobIds, fs \in SeqsUpTo(NewFieldInputs) :
          /\ (last'.op = "createJobForm" /\ last'.code = 201
                 /\ CreateJobForm("E1", j, fs))
             => StoredAsSubmitted(fs)
          /\ (last'.op = "updateJobForm" /\ last'.code = 200
                 /\ UpdateJobForm("E1", j, fs))
             => StoredAsSubmitted(fs)]_vars

\* C25: in every reachable state, the form field of every application
\* response belongs to the job of the response's application.
C25_ResponsesAnswerFieldsOfTheirJob ==
    \A r \in response :
        \A a \in application, f \in formField :
            (a.id = r.applicationId /\ f.id = r.fieldId) => f.jobId = a.jobId

\* the form fields of the jobs other than jobId are after the step as before
OtherJobsFieldsKept(jobId) ==
    /\ \A f \in formField : f.jobId # jobId => f \in formField'
    /\ \A f \in formField' : f.jobId # jobId => f \in formField

\* C26: a deleteJobFormField or updateJobForm request for the job of its
\* path changes or deletes no form field of any other job.
C26_FormEditsStayInTheJob ==
    [][/\ last'.op = "deleteJobFormField"
          => \A u \in EmployerUsers, j \in JobIds, f \in UpdatableFieldIds :
                DeleteJobFormField(u, j, f) => OtherJobsFieldsKept(j)
       /\ last'.op = "updateJobForm"
          => \A u \in EmployerUsers, j \in JobIds, fs \in SeqsUpTo(OptionalFieldInputs) :
                UpdateJobForm(u, j, fs) => OtherJobsFieldsKept(j)]_vars

\* C27: in every reachable state, every JobSeeker row belongs to a user of
\* role JOB_SEEKER and every Employer row to a user of role EMPLOYER, so no
\* user has both rows.
C27_ProfileRowsMatchTheRole ==
    /\ \A u \in jobSeeker : StoredRole(u) = "JOB_SEEKER"
    /\ \A e \in employer : StoredRole(e.userId) = "EMPLOYER"
    /\ \A e \in employer : e.userId \notin jobSeeker

\* C28: where E1 is the only employer who creates companies, in every
\* reachable state an employer whose role is ADMIN and who has a companyId
\* is E1 and the company is one E1 created: no createEmployerProfile,
\* selectExistingCompany, updateEmployerSettings or updateEmployerProfile
\* request makes another employer ADMIN of a company.
C28_AdminIsTheCreator ==
    \A e \in employer :
        (e.role = "ADMIN" /\ e.companyId # Null) => e.userId = "E1"

\* C29: GET /api/jobs/:jobId answered for an existing job with the valid
\* token of a job seeker who has a JobSeeker row carries hasApplied = TRUE
\* exactly when an Application of that seeker for that job exists; without a
\* token or with an invalid one it answers 200 with hasApplied = FALSE.
C29_HasAppliedIffApplication ==
    [][\A t \in Tokens, j \in JobIds :
          (last'.op = "getJobById" /\ HasRow(job, j) /\ GetJobById(t, j))
              => IF t \in {NoToken, BadToken}
                 THEN jobView' = [code |-> 200, hasApplied |-> FALSE]
                 ELSE (t.role = "JOB_SEEKER" /\ t.id \in SeekerUsers
                          /\ t.id \in user /\ t.id \in jobSeeker)
                        => /\ jobView'.code = 200
                           /\ jobView'.hasApplied <=> ExistingApplication(j, t.id)]_vars

\* C30: updateMyCompany is a partial update: a company field that is absent
\* from the request body (here name, website, description) keeps the value
\* it had before the request.
C30_AbsentFieldsKeepTheirValue ==
    [][(companyReq[1].pc = "write" /\ companyReq[1].kind = "update"
            /\ HasRow(company, companyReq[1].companyId)
            /\ UpdateMyCompanyWrite(1))
          => LET q == companyReq[1]
                 before == Row(company, q.companyId)
                 after == CHOOSE c \in company' : c.id = q.companyId
             IN /\ q.name = <<>> => after.name = before.name
                /\ q.website = Undefined => after.website = before.website
                /\ q.description = Undefined
                      => after.description = before.description]_vars

====
